---------------------------- MODULE Spec2Model ----------------------------
(***************************************************************************)
(* A model of the smellysat solver: literal and clause primitives          *)
(* (src/src/instance), the clause index (src/src/solver/clause_index.rs),  *)
(* the assignment set (assignment_set.rs), the unit propagator             *)
(* (unit_propagator.rs) and the depth-first search driver (dfs.rs).        *)
(*                                                                         *)
(* The specifications of this module:                                      *)
(*   Spec       - Instance::solve run on every instance within the bounds  *)
(*   SpecCore   - the same on a smaller family of instances                *)
(*   SpecClause - Clause::new_with_id applied to every literal list within *)
(*                the bounds                                               *)
(*   SpecDimacs - dimacs::parse run on every file within the bounds        *)
(*   SpecBuilder - every short sequence of calls on a ProblemBuilder       *)
(*   SpecLiteral - Literal::new, var, polarity, invert on 32-bit words     *)
(*   SpecTrail  - every short sequence of calls on a Trail                 *)
(*   SpecIndex  - every short sequence of calls on a ClauseStore           *)
(*   SpecSearch - the clause-learning search run on every instance within  *)
(*                its bounds: propagation, decisions, conflict analysis    *)
(*                (src/src/solver/backtrack.rs) and backjumps              *)
(***************************************************************************)
EXTENDS Integers, Sequences, FiniteSets, TLC

VARIABLES
    \* ---- the build and the instance (Instance, VariableRegister) ----
    debug,                        \* cfg(debug_assertions): TRUE = debug build
    variables,                    \* VariableRegister.variables, registration order
    original_variables,           \* VariableRegister.original_variables
    clauses,                      \* Instance.clauses: Seq of Seq of literals
    \* ---- locals of Instance::solve ----
    pc,                           \* position in solve
    path,                         \* SearchPath.path
    current_assignments,          \* SearchPath.current_assignments (a LiteralSet)
    assignments_since_last_step,  \* SearchPath.assignments_since_last_step
    clause_index,                 \* ClauseIndex
    kg,                           \* KnowledgeGraph.vertices
    queue,                        \* the VecDeque of propagate_units
    stage,                        \* which call of propagate_units is running
    solution,                     \* what solve returned
    step_count,                   \* EvaluationStats.step_count
    first_decision,               \* history: the first literal stepped into
    backtracks,                   \* history: number of backtrack_and_pivot that undid a level
    \* ---- Clause::new_with_id ----
    cl_input,                     \* the literal list handed to new_with_id
    cl_result,                    \* what new_with_id produced
    \* ---- dimacs::parse ----
    dm_lines,                     \* the lines of the file, each a Seq of words
    dm,                           \* the locals of parse and what it returned
    \* ---- ProblemBuilder ----
    pb,                           \* ProblemBuilder: variables, expressions
    pb_log,                       \* history: the calls made on the builder
    \* ---- Literal ----
    lit_var,                      \* the variable index handed to Literal::new, a 32-bit word
    lit_polarity,                 \* the polarity handed to Literal::new
    lit_made,                     \* the literal made, and what invert made of it
    \* ---- Trail ----
    trail,                        \* Trail: the levels and the cumulative assignment
    trail_log,                    \* history: the last call on the trail and what it returned
    \* ---- ClauseStore and ClauseIndex ----
    store,                        \* ClauseStore
    index,                        \* ClauseIndex
    \* ---- the clause-learning search (trail, store, graph, analyser) ----
    cdcl                          \* the search: its position and everything it owns

vars == << debug, variables, original_variables, clauses, pc, path,
           current_assignments, assignments_since_last_step, clause_index, kg,
           queue, stage, solution, step_count, first_decision, backtracks,
           cl_input, cl_result, dm_lines, dm, pb, pb_log,
           lit_var, lit_polarity, lit_made, trail, trail_log, store, index, cdcl >>

solverVars == << debug, variables, original_variables, clauses, pc, path,
                 current_assignments, assignments_since_last_step, clause_index,
                 kg, queue, stage, solution, step_count, first_decision,
                 backtracks >>

clauseVars == << cl_input, cl_result >>

dimacsVars == << dm_lines, dm >>

builderVars == << pb, pb_log >>

literalVars == << lit_var, lit_polarity, lit_made >>

trailVars == << trail, trail_log >>

indexVars == << store, index >>

searchVars == << cdcl >>

\* everything but the solver and the clause constructor
otherVars == << dimacsVars, builderVars, literalVars, trailVars, indexVars, searchVars >>

\* the value of a part of the program that a specification does not run
Unused == [state |-> "unused"]

DimacsIdle == dm_lines = << >> /\ dm = Unused

BuilderIdle == pb = Unused /\ pb_log = << >>

LiteralIdle == lit_var = Unused /\ lit_polarity = FALSE /\ lit_made = Unused

TrailIdle == trail = Unused /\ trail_log = Unused

IndexIdle == store = Unused /\ index = Unused

SearchIdle == cdcl = Unused

OthersIdle ==
    DimacsIdle /\ BuilderIdle /\ LiteralIdle /\ TrailIdle /\ IndexIdle /\ SearchIdle

----------------------------------------------------------------------------
(* Bounds *)

\* number of variables an instance may register
NumVars == 3
\* number of clauses of an instance
MaxClauses == 4
\* number of literals of an input clause of the solver
MaxClauseLen == 2
\* length of a literal list handed to Clause::new_with_id
MaxLits == 3

\* the instances on which the confirmed properties are checked: variables, clauses
CoreVars == 2

CoreClauses == 3

\* Option<T>: None is the empty sequence, Some(x) the one-element sequence
None == << >>

Some(x) == << x >>

----------------------------------------------------------------------------
(* Generic sequence helpers *)

Last(s) == s[Len(s)]

Range(s) == { s[i] : i \in 1..Len(s) }

RECURSIVE SeqsUpTo(_, _)
\* all sequences over S of length 0..n
SeqsUpTo(S, n) ==
    IF n = 0 THEN { << >> }
    ELSE LET shorter == SeqsUpTo(S, n - 1)
         IN  shorter \cup { Append(s, x) : s \in { t \in shorter : Len(t) = n - 1 }, x \in S }

\* all orders in which the elements of a finite set can be listed
Permutations_(S) ==
    { f \in [1..Cardinality(S) -> S] : \A x \in S : \E i \in 1..Cardinality(S) : f[i] = x }

----------------------------------------------------------------------------
(* Literal: (variable << 1) | polarity *)

LiteralNew(var, polarity) == 2 * var + (IF polarity THEN 1 ELSE 0)

LiteralVar(lit) == lit \div 2

LiteralPolarity(lit) == (lit % 2) # 0

\* XOR with 1
LiteralInvert(lit) == IF lit % 2 = 0 THEN lit + 1 ELSE lit - 1

----------------------------------------------------------------------------
(* Vec helpers used by several functions *)

\* the sort key: the variable for sort_by_key(|l| l.var()), the packed word for sort()
SortKey(lit, byVar) == IF byVar THEN lit \div 2 ELSE lit

RECURSIVE InsertBy(_, _, _)
\* insert x after every element whose key is <= key(x): one step of a stable sort
InsertBy(s, x, byVar) ==
    IF s = << >> THEN << x >>
    ELSE IF SortKey(x, byVar) < SortKey(Last(s), byVar)
         THEN Append(InsertBy(SubSeq(s, 1, Len(s) - 1), x, byVar), Last(s))
         ELSE Append(s, x)

RECURSIVE StableSortBy(_, _)
\* slice::sort_by_key / slice::sort: a stable sort
StableSortBy(s, byVar) ==
    IF s = << >> THEN << >>
    ELSE InsertBy(StableSortBy(SubSeq(s, 1, Len(s) - 1), byVar), Last(s), byVar)

RECURSIVE Dedup(_)
\* Vec::dedup: drop an element equal to the one before it
Dedup(s) ==
    IF Len(s) < 2 THEN s
    ELSE LET front == Dedup(SubSeq(s, 1, Len(s) - 1))
         IN  IF Last(front) = Last(s) THEN front ELSE Append(front, Last(s))

\* literals.sort(); literals.dedup()
SortDedup(s) == Dedup(StableSortBy(s, FALSE))

----------------------------------------------------------------------------
(* Clause::new_with_id *)

\* the windows(2) loop: some adjacent pair has one variable and two polarities
HasAdjacentComplement(lits) ==
    \E i \in 1..(Len(lits) - 1) :
        LiteralVar(lits[i]) = LiteralVar(lits[i + 1]) /\ lits[i] # lits[i + 1]

\* a mutant of new_with_id that forgets the dedup
new_with_id_nodedup(lits) ==
    LET sorted == StableSortBy(lits, TRUE)
    IN  IF HasAdjacentComplement(sorted)
        THEN [panic |-> TRUE, literals |-> << >>]
        ELSE [panic |-> FALSE, literals |-> sorted]

new_with_id(lits) ==
    LET sorted == StableSortBy(lits, TRUE)
    IN  IF HasAdjacentComplement(sorted)
        THEN [panic |-> TRUE, literals |-> << >>]
        ELSE [panic |-> FALSE, literals |-> Dedup(sorted)]

----------------------------------------------------------------------------
(* LiteralSet: a hash map from variable to polarity.  Modelled as a function *)
(* whose domain is the set of assigned variables.                            *)

LiteralSet_new == [v \in {} |-> TRUE]

LiteralSet_add(ls, lit) ==
    [v \in (DOMAIN ls) \cup {LiteralVar(lit)} |->
        IF v = LiteralVar(lit) THEN LiteralPolarity(lit) ELSE ls[v]]

\* get(var).is_some()
LiteralSet_has(ls, var) == var \in DOMAIN ls

LiteralSet_contains(ls, lit) ==
    LiteralVar(lit) \in DOMAIN ls /\ ls[LiteralVar(lit)] = LiteralPolarity(lit)

\* values.remove(var), then the panic when the removed value is not lit's polarity
LiteralSet_remove(ls, lit) ==
    [panic |-> ~LiteralSet_contains(ls, lit),
     set   |-> [v \in (DOMAIN ls) \ {LiteralVar(lit)} |-> ls[v]]]

LiteralSet_size(ls) == Cardinality(DOMAIN ls)

\* the literals of the map, in every order the hash map may iterate them
LiteralSet_as_assignment_vec(ls) ==
    Permutations_({ LiteralNew(v, ls[v]) : v \in DOMAIN ls })

LiteralSet_from_assignment_vec(lits) ==
    [v \in { LiteralVar(lits[i]) : i \in 1..Len(lits) } |->
        LiteralPolarity(lits[CHOOSE i \in 1..Len(lits) :
            /\ LiteralVar(lits[i]) = v
            /\ \A j \in (i + 1)..Len(lits) : LiteralVar(lits[j]) # v])]

RECURSIVE EvaluateFrom(_, _, _)
EvaluateFrom(ls, lits, i) ==
    IF i > Len(lits) THEN "False"
    ELSE IF LiteralSet_has(ls, LiteralVar(lits[i]))
         THEN IF ls[LiteralVar(lits[i])] = LiteralPolarity(lits[i])
              THEN "True"
              ELSE EvaluateFrom(ls, lits, i + 1)
         ELSE "Unknown"

\* LiteralSet::evaluate: the first satisfied literal gives True, the first
\* unassigned literal before it gives Unknown
LiteralSet_evaluate(ls, lits) == EvaluateFrom(ls, lits, 1)

----------------------------------------------------------------------------
(* ClauseIndex.  Clause indexes are positions in the clause list (from 1).  *)
(* A usize counter is kept as the representative of its value mod 2^64     *)
(* that is nearest to 0: a release build wraps 0 - 1 to 2^64 - 1, written  *)
(* -1 here; a debug build panics instead.                                  *)

\* the occurrences of var over the clause list, clause after clause
RECURSIVE OccurrencesOf(_, _, _)
OccurrencesOf(cls, var, i) ==
    IF i > Len(cls) THEN << >>
    ELSE SelectSeq([k \in 1..Len(cls[i]) |-> IF LiteralVar(cls[i][k]) = var THEN i ELSE 0],
                   LAMBDA x : x # 0)
         \o OccurrencesOf(cls, var, i + 1)

ClauseIndex_new(cls) ==
    [by_var |-> [v \in UNION { { LiteralVar(cls[i][k]) : k \in 1..Len(cls[i]) } : i \in 1..Len(cls) } |->
                    OccurrencesOf(cls, v, 1)],
     resolved_vars |-> {},
     free_var_count |-> [i \in 1..Len(cls) |-> Len(cls[i])],
     no_free_var_clauses |-> {},
     one_free_var_clauses |-> { i \in 1..Len(cls) : Len(cls[i]) = 1 },
     two_free_var_clause_count |-> Cardinality({ i \in 1..Len(cls) : Len(cls[i]) >= 2 })]

\* the body of the loop of mark_resolved for one clause index
MarkResolvedOne(r, ix, dbg) ==
    IF r.panic THEN r
    ELSE IF dbg /\ r.ci.free_var_count[ix] = 0
    THEN [r EXCEPT !.panic = TRUE]
    ELSE LET n  == r.ci.free_var_count[ix] - 1
             c1 == [r.ci EXCEPT !.free_var_count[ix] = n]
         IN  IF n = 0
             THEN [r EXCEPT !.ci = [c1 EXCEPT
                        !.one_free_var_clauses = @ \ {ix},
                        !.no_free_var_clauses = @ \cup {ix}]]
             ELSE IF n = 1
             THEN IF dbg /\ c1.two_free_var_clause_count = 0
                  THEN [r EXCEPT !.panic = TRUE]
                  ELSE [r EXCEPT !.ci = [c1 EXCEPT
                        !.one_free_var_clauses = @ \cup {ix},
                        !.two_free_var_clause_count = @ - 1]]
             ELSE [r EXCEPT !.ci = c1]

RECURSIVE MarkResolvedFrom(_, _, _, _)
MarkResolvedFrom(r, ixes, k, dbg) ==
    IF k > Len(ixes) THEN r
    ELSE MarkResolvedFrom(MarkResolvedOne(r, ixes[k], dbg), ixes, k + 1, dbg)

\* ClauseIndex::mark_resolved; the result tells whether an arithmetic panic ended it
mark_resolved(ci, var, dbg) ==
    LET c0 == [ci EXCEPT !.resolved_vars = @ \cup {var}]
    IN  IF var \notin DOMAIN ci.by_var
        THEN [panic |-> FALSE, ci |-> c0]
        ELSE MarkResolvedFrom([panic |-> FALSE, ci |-> c0], ci.by_var[var], 1, dbg)

\* the body of the loop of mark_unresolved for one clause index
MarkUnresolvedOne(ci, ix) ==
    LET n  == ci.free_var_count[ix] + 1
        c1 == [ci EXCEPT !.free_var_count[ix] = n]
    IN  IF n = 0 THEN [c1 EXCEPT !.no_free_var_clauses = @ \cup {ix}]
        ELSE IF n = 1 THEN [c1 EXCEPT !.no_free_var_clauses = @ \ {ix},
                                      !.one_free_var_clauses = @ \cup {ix}]
        ELSE IF n = 2 THEN [c1 EXCEPT !.one_free_var_clauses = @ \ {ix},
                                      !.two_free_var_clause_count = @ + 1]
        ELSE c1

RECURSIVE MarkUnresolvedFrom(_, _, _)
MarkUnresolvedFrom(ci, ixes, k) ==
    IF k > Len(ixes) THEN ci
    ELSE MarkUnresolvedFrom(MarkUnresolvedOne(ci, ixes[k]), ixes, k + 1)

\* a slip in mark_unresolved: the variable stays in resolved_vars
mark_unresolved_keep(ci, var) ==
    IF var \notin DOMAIN ci.by_var THEN ci
    ELSE MarkUnresolvedFrom(ci, ci.by_var[var], 1)

\* ClauseIndex::mark_unresolved
mark_unresolved(ci, var) ==
    LET c0 == [ci EXCEPT !.resolved_vars = @ \ {var}]
    IN  IF var \notin DOMAIN ci.by_var THEN c0
        ELSE MarkUnresolvedFrom(c0, ci.by_var[var], 1)

\* the clause indexes by_var lists for the literal's variable that are in the bucket
CandidatesIn(ci, lit, bucket) ==
    IF LiteralVar(lit) \notin DOMAIN ci.by_var THEN << >>
    ELSE SelectSeq(ci.by_var[LiteralVar(lit)], LAMBDA ix : ix \in bucket)

find_unit_prop_candidates(ci, lit) == CandidatesIn(ci, lit, ci.one_free_var_clauses)

find_evaluatable_candidates(ci, lit) == CandidatesIn(ci, lit, ci.no_free_var_clauses)

\* a mutant of all_clauses_resolved that asks for at least one resolved clause
all_clauses_resolved_nonempty(ci) ==
    /\ ci.no_free_var_clauses # {}
    /\ Cardinality(ci.no_free_var_clauses) = Len(ci.free_var_count)

all_clauses_resolved(ci) ==
    Cardinality(ci.no_free_var_clauses) = Len(ci.free_var_count)

\* ClauseIndex::find_unit_clauses: the clauses of length one, in clause order
find_unit_clauses(cls) == SelectSeq(cls, LAMBDA c : Len(c) = 1)

----------------------------------------------------------------------------
(* KnowledgeGraph: one vertex per registered variable *)

KnowledgeGraph_new(vs) ==
    [v \in Range(vs) |-> [trigger |-> None, decision |-> None, clause |-> None]]

kg_add_decision(g, decision) ==
    [g EXCEPT ![LiteralVar(decision)] =
        [trigger |-> None, decision |-> Some(LiteralVar(decision)), clause |-> None]]

\* a slip in add_inferred: the antecedent clause is not recorded
kg_add_inferred_noclause(g, inferred, trigger, decision, clause) ==
    [g EXCEPT ![LiteralVar(inferred)] =
        [trigger  |-> Some(LiteralVar(trigger)),
         decision |-> IF decision = None THEN None ELSE Some(LiteralVar(decision[1])),
         clause   |-> None]]

\* decision is an Option<Literal>
kg_add_inferred(g, inferred, trigger, decision, clause) ==
    [g EXCEPT ![LiteralVar(inferred)] =
        [trigger  |-> Some(LiteralVar(trigger)),
         decision |-> IF decision = None THEN None ELSE Some(LiteralVar(decision[1])),
         clause   |-> Some(clause)]]

----------------------------------------------------------------------------
(* SearchPath.  The operations work on a record m of the mutable locals of *)
(* solve: [panic, path, ca, since, ci, kg] (ca = current_assignments,      *)
(* since = assignments_since_last_step, ci = the clause index).  Once      *)
(* m.panic is TRUE the run has aborted and m is passed on unchanged.       *)

SearchPath_new == << [chosen |-> << >>, inferred |-> << >>] >>

SearchPath_step(m, lit, dbg) ==
    IF m.panic THEN m
    ELSE LET r == mark_resolved(m.ci, LiteralVar(lit), dbg)
         IN  [m EXCEPT !.ca = LiteralSet_add(m.ca, lit),
                       !.ci = r.ci,
                       !.panic = r.panic,
                       !.since = << lit >>,
                       !.path = Append(m.path, [chosen |-> << lit >>, inferred |-> << >>])]

SearchPath_add_initial_unit(m, lit) ==
    [m EXCEPT !.ca = LiteralSet_add(m.ca, lit),
              !.since = Append(m.since, lit),
              !.path[Len(m.path)].chosen = Append(@, lit)]

SearchPath_add_inferred(m, lit) ==
    [m EXCEPT !.ca = LiteralSet_add(m.ca, lit),
              !.since = Append(m.since, lit),
              !.path[Len(m.path)].inferred = Append(@, lit)]

\* the decision of a path entry: the entry pushed by new() (index 1) holds the
\* initial units and is no decision; every later entry was pushed by step
EntryDecision(p, i) == IF i = 1 THEN None ELSE Some(p[i].chosen[1])

\* rposition(|step| step.chosen.polarity()): 0 when there is none
LastLhs(p) ==
    LET lhs == { i \in 1..Len(p) :
                    /\ EntryDecision(p, i) # None
                    /\ LiteralPolarity(EntryDecision(p, i)[1]) }
    IN  IF lhs = {} THEN 0 ELSE CHOOSE i \in lhs : \A j \in lhs : j <= i

\* current_assignments.remove(lit); clause_index.mark_unresolved(lit.var())
UnassignOne(m, lit) ==
    IF m.panic THEN m
    ELSE LET r == LiteralSet_remove(m.ca, lit)
         IN  IF r.panic THEN [m EXCEPT !.panic = TRUE]
             ELSE [m EXCEPT !.ca = r.set, !.ci = mark_unresolved(m.ci, LiteralVar(lit))]

RECURSIVE UnassignAll(_, _, _)
UnassignAll(m, lits, k) ==
    IF k > Len(lits) THEN m
    ELSE UnassignAll(UnassignOne(m, lits[k]), lits, k + 1)

RECURSIVE UnassignEntries(_, _, _)
\* the loop over the drained entries: the chosen literal, then the inferred ones
UnassignEntries(m, entries, k) ==
    IF k > Len(entries) THEN m
    ELSE UnassignEntries(
            UnassignAll(m, entries[k].chosen \o entries[k].inferred, 1),
            entries, k + 1)

\* SearchPath::backtrack: found = FALSE is the None result
SearchPath_backtrack(m) ==
    LET ix == LastLhs(m.path)
    IN  IF ix = 0 THEN [found |-> FALSE, m |-> m, backtracked |-> << >>]
        ELSE LET dropped == SubSeq(m.path, ix, Len(m.path))
                 m1 == [m EXCEPT !.path = SubSeq(m.path, 1, ix - 1)]
                 m2 == UnassignEntries(m1, dropped, 1)
             IN  [found |-> TRUE,
                  m |-> IF m2.panic THEN m2 ELSE [m2 EXCEPT !.since = << >>],
                  backtracked |-> dropped]

\* a slip in backtrack_and_pivot: the pivot is stepped into without invert()
backtrack_and_pivot_same(m, dbg) ==
    LET b == SearchPath_backtrack(m)
    IN  IF ~b.found THEN [ok |-> FALSE, m |-> m]
        ELSE [ok |-> TRUE,
              m  |-> SearchPath_step(b.m, b.backtracked[1].chosen[1], dbg)]

\* SearchPath::backtrack_and_pivot
backtrack_and_pivot(m, dbg) ==
    LET b == SearchPath_backtrack(m)
    IN  IF ~b.found THEN [ok |-> FALSE, m |-> m]
        ELSE [ok |-> TRUE,
              m  |-> SearchPath_step(b.m, LiteralInvert(b.backtracked[1].chosen[1]), dbg)]

\* TraversalPath::next: the first variable, in registration order, with no value
TraversalPath_next(vs, ca) ==
    LET free == { i \in 1..Len(vs) : ~LiteralSet_has(ca, vs[i]) }
    IN  IF free = {} THEN None
        ELSE Some(vs[CHOOSE i \in free : \A j \in free : i <= j])

----------------------------------------------------------------------------
(* UnitPropagator *)

RECURSIVE PropagateUnitFrom(_, _, _, _)
PropagateUnitFrom(ca, lits, i, last_unknown) ==
    IF i > Len(lits)
    THEN IF last_unknown = None
         THEN [kind |-> "UnwrapNone", lit |-> 0]
         ELSE [kind |-> "Inferred", lit |-> last_unknown[1]]
    ELSE IF LiteralSet_has(ca, LiteralVar(lits[i]))
         THEN IF ca[LiteralVar(lits[i])] = LiteralPolarity(lits[i])
              THEN [kind |-> "Conflicted", lit |-> lits[i]]
              ELSE PropagateUnitFrom(ca, lits, i + 1, last_unknown)
         ELSE IF last_unknown # None
              THEN [kind |-> "Failed", lit |-> 0]
              ELSE PropagateUnitFrom(ca, lits, i + 1, Some(lits[i]))

\* UnitPropagator::propagate_unit on the literals of one candidate clause
propagate_unit(ca, lits) == PropagateUnitFrom(ca, lits, 1, None)

RECURSIVE VisitCandidates(_, _, _, _, _, _)
\* the for loop of propagate_units over the candidate clauses of one literal
VisitCandidates(cls, m, literal, cands, k, inferred_literals) ==
    IF k > Len(cands)
    THEN [kind |-> "Ok", m |-> m, inferred |-> inferred_literals]
    ELSE LET r == propagate_unit(m.ca, cls[cands[k]])
         IN  IF r.kind = "Conflicted"
             THEN [kind |-> "Conflict", m |-> m, inferred |-> inferred_literals]
             ELSE IF r.kind = "Inferred"
             THEN VisitCandidates(cls,
                      [m EXCEPT !.kg = kg_add_inferred(m.kg, r.lit, literal,
                                           EntryDecision(m.path, Len(m.path)), cands[k])],
                      literal, cands, k + 1, Append(inferred_literals, r.lit))
             ELSE [kind |-> "Panic", m |-> [m EXCEPT !.panic = TRUE],
                   inferred |-> inferred_literals]

\* self.dfs_path.add_inferred(inferred); self.clause_index.mark_resolved(inferred.var())
AddInferredOne(m, lit, dbg) ==
    IF m.panic THEN m
    ELSE LET m1 == SearchPath_add_inferred(m, lit)
             r  == mark_resolved(m1.ci, LiteralVar(lit), dbg)
         IN  [m1 EXCEPT !.ci = r.ci, !.panic = r.panic]

RECURSIVE AddInferredAll(_, _, _, _)
AddInferredAll(m, lits, k, dbg) ==
    IF k > Len(lits) THEN m
    ELSE AddInferredAll(AddInferredOne(m, lits[k], dbg), lits, k + 1, dbg)

\* one round of the while loop of propagate_units: pop_back, visit the
\* candidates, add what was inferred, extend the queue
propagate_units_round(cls, m, q, dbg) ==
    LET literal == Last(q)
        rest    == SubSeq(q, 1, Len(q) - 1)
        v       == VisitCandidates(cls, m, literal,
                                   find_unit_prop_candidates(m.ci, literal), 1, << >>)
        inf     == SortDedup(v.inferred)
    IN  IF v.kind = "Ok"
        THEN [conflict |-> FALSE, m |-> AddInferredAll(v.m, inf, 1, dbg), queue |-> rest \o inf]
        ELSE [conflict |-> (v.kind = "Conflict"), m |-> v.m, queue |-> rest]

\* UnitPropagator::evaluate: TRUE when some clause with no free variable that
\* touches a literal of the current level evaluates to False
evaluate(cls, m) ==
    LET untested == LiteralSet_from_assignment_vec(m.since)
    IN  \E v \in DOMAIN untested :
            \E k \in 1..Len(find_evaluatable_candidates(m.ci, LiteralNew(v, untested[v]))) :
                LiteralSet_evaluate(m.ca,
                    cls[find_evaluatable_candidates(m.ci, LiteralNew(v, untested[v]))[k]]) = "False"

\* two neighbours of the sorted unit literals share a variable
UnitsConflict(literals) ==
    \E i \in 1..(Len(literals) - 1) : LiteralVar(literals[i]) = LiteralVar(literals[i + 1])

RECURSIVE MarkInitial(_, _, _, _)
\* the loop of find_inital_assignment: mark_resolved and kg.add_decision per literal
MarkInitial(m, literals, k, dbg) ==
    IF k > Len(literals) \/ m.panic THEN m
    ELSE LET r == mark_resolved(m.ci, LiteralVar(literals[k]), dbg)
         IN  MarkInitial([m EXCEPT !.ci = r.ci, !.panic = r.panic,
                                   !.kg = kg_add_decision(m.kg, literals[k])],
                         literals, k + 1, dbg)

\* a mutant of find_inital_assignment that never reports a conflict
find_inital_assignment_nocheck(cls, m, dbg) ==
    LET literals == SortDedup([i \in 1..Len(find_unit_clauses(cls)) |-> find_unit_clauses(cls)[i][1]])
    IN  [conflict |-> FALSE, m |-> MarkInitial(m, literals, 1, dbg), literals |-> literals]

find_inital_assignment(cls, m, dbg) ==
    LET literals == SortDedup([i \in 1..Len(find_unit_clauses(cls)) |-> find_unit_clauses(cls)[i][1]])
    IN  IF UnitsConflict(literals)
        THEN [conflict |-> TRUE, m |-> m, literals |-> literals]
        ELSE [conflict |-> FALSE, m |-> MarkInitial(m, literals, 1, dbg), literals |-> literals]

RECURSIVE AddInitialUnits(_, _, _)
AddInitialUnits(m, literals, k) ==
    IF k > Len(literals) THEN m
    ELSE AddInitialUnits(SearchPath_add_initial_unit(m, literals[k]), literals, k + 1)

----------------------------------------------------------------------------
(* Solution *)

\* a mutant of the Debug impl that walks every registered variable
Solution_fmt_all(vs, orig, sol) ==
    [i \in 1..Len(vs) |->
        [var |-> vs[i],
         val |-> IF LiteralSet_has(sol.assignment, vs[i])
                 THEN (IF sol.assignment[vs[i]] THEN "true" ELSE "false")
                 ELSE "undef"]]

\* impl Debug for Solution, on a solution that is Some: one entry per original variable
Solution_fmt(vs, orig, sol) ==
    [i \in 1..Len(orig) |->
        [var |-> orig[i],
         val |-> IF LiteralSet_has(sol.assignment, orig[i])
                 THEN (IF sol.assignment[orig[i]] THEN "true" ELSE "false")
                 ELSE "undef"]]

----------------------------------------------------------------------------
(* The inputs of solve *)

\* the literals over the first n variables
LitsOf(n) == 0..(2 * n - 1)

\* clauses as Clause::new_with_id leaves them: sorted by variable, one literal
\* per variable, at least one literal
ClausesOver(n) ==
    { c \in SeqsUpTo(LitsOf(n), MaxClauseLen) :
        /\ Len(c) >= 1
        /\ \A i \in 1..(Len(c) - 1) : LiteralVar(c[i]) < LiteralVar(c[i + 1]) }

RECURSIVE ClauseCode(_, _)
\* a number that orders the clauses over n variables
ClauseCode(c, n) ==
    IF c = << >> THEN 0
    ELSE ClauseCode(SubSeq(c, 1, Len(c) - 1), n) * (2 * n + 1) + Last(c) + 1

RECURSIVE InstancesOver(_, _)
\* the clause lists of at most k distinct clauses, listed in increasing code
InstancesOver(n, k) ==
    IF k = 0 THEN { << >> }
    ELSE LET shorter == InstancesOver(n, k - 1)
         IN  shorter \cup
             UNION { { Append(s, c) :
                         c \in { d \in ClausesOver(n) :
                                   s = << >> \/ ClauseCode(Last(s), n) < ClauseCode(d, n) } } :
                     s \in { t \in shorter : Len(t) = k - 1 } }

\* the registers: variables 0..n-1 in registration order; the original
\* variables are all of them, or all but the last registered (a Tseitin variable)
RegisterOf(n) == [i \in 1..n |-> i - 1]

OriginalsOf(n) ==
    IF n = 0 THEN { << >> } ELSE { RegisterOf(n), SubSeq(RegisterOf(n), 1, n - 1) }

----------------------------------------------------------------------------
(* Instance::solve.  The locals of solve travel as one record m:           *)
(*   panic, path, ca (current_assignments), since                          *)
(*   (assignments_since_last_step), ci (clause index), kg, pc, queue,      *)
(*   stage, solution, step_count, first_decision, backtracks, fill.        *)
(* fill = TRUE asks for the queue of propagate_units to be filled with the *)
(* current level's literals in one of the orders the hash map may give.    *)

Running == [verdict |-> "RUNNING", assignment |-> LiteralSet_new]

\* a panic unwinds solve: no Solution is returned (m0: the locals before the step)
Abort(m0) ==
    [m0 EXCEPT !.pc = "done",
               !.solution = [verdict |-> "PANIC", assignment |-> LiteralSet_new]]

\* return Solution { solution: None / Some(path.current_assignments) }
Return(m, verdict) ==
    [m EXCEPT !.pc = "done",
              !.solution = [verdict |-> verdict,
                            assignment |-> IF verdict = "SAT" THEN m.ca ELSE LiteralSet_new]]

\* the Some(conflict) arm of do_clause_evaluation / do_unit_propagation
OnConflict(m0, m, dbg) ==
    LET b == backtrack_and_pivot(m, dbg)
    IN  IF b.m.panic THEN Abort(m0)
        ELSE IF ~b.ok THEN Return(b.m, "UNSAT")
        ELSE [b.m EXCEPT !.pc = "evaluate", !.queue = << >>, !.backtracks = @ + 1]

\* let mut queue = VecDeque::new(); queue.extend(...): the filling is left to fill
StartPropagation(m, st) ==
    [m EXCEPT !.pc = "propagate", !.stage = st, !.queue = << >>, !.fill = TRUE]

\* path.step(&mut clause_index, lit); kg.add_decision(lit)
StepInto(m, var, counted, dbg) ==
    LET lit == LiteralNew(var, TRUE)
        m1  == SearchPath_step(m, lit, dbg)
    IN  IF m1.panic THEN Abort(m)
        ELSE [m1 EXCEPT !.kg = kg_add_decision(m1.kg, lit),
                        !.pc = "evaluate",
                        !.step_count = IF counted THEN @ + 1 ELSE @,
                        !.first_decision = IF @ = None THEN Some(lit) ELSE @]

\* prop.initial_unit_propagation(), first part: the level-0 units are found,
\* put on the path, and queued for one propagation pass
initial_unit_propagation(cls, m, dbg) ==
    LET r == find_inital_assignment(cls, m, dbg)
    IN  IF r.conflict THEN Return(r.m, "UNSAT")
        ELSE IF r.m.panic THEN Abort(m)
        ELSE StartPropagation(AddInitialUnits(r.m, r.literals, 1), "initial")

\* one round of propagate_units, and what solve does with a conflict
propagate_units(cls, m, dbg) ==
    LET r == propagate_units_round(cls, m, m.queue, dbg)
    IN  IF r.m.panic THEN Abort(m)
        ELSE IF r.conflict
        THEN IF m.stage = "initial" THEN Return(r.m, "UNSAT") ELSE OnConflict(m, r.m, dbg)
        ELSE [r.m EXCEPT !.queue = r.queue]

\* prop.initial_unit_propagation(), last part: the evaluation sweep over the
\* level-0 literals once the queue has drained
initial_sweep(cls, m) ==
    IF evaluate(cls, m) THEN Return(m, "UNSAT") ELSE [m EXCEPT !.pc = "first_decision"]

\* after the initial propagation: the all-resolved test and the first decision
first_decision_step(vs, m, dbg) ==
    IF all_clauses_resolved(m.ci) THEN Return(m, "SAT")
    ELSE IF TraversalPath_next(vs, m.ca) = None THEN Abort(m)
    ELSE StepInto(m, TraversalPath_next(vs, m.ca)[1], FALSE, dbg)

\* the head of the loop: do_clause_evaluation, the all-resolved test, and the
\* start of do_unit_propagation
loop_head(cls, m, dbg) ==
    IF evaluate(cls, m) THEN OnConflict(m, m, dbg)
    ELSE IF all_clauses_resolved(m.ci) THEN Return(m, "SAT")
    ELSE StartPropagation(m, "loop")

\* the tail of the loop: the all-resolved test and the next decision
loop_tail(vs, m, dbg) ==
    IF all_clauses_resolved(m.ci) THEN Return(m, "SAT")
    ELSE IF TraversalPath_next(vs, m.ca) = None THEN [m EXCEPT !.pc = "evaluate"]
    ELSE StepInto(m, TraversalPath_next(vs, m.ca)[1], TRUE, dbg)

\* the locals of solve once constructed (SearchPath::new, ClauseIndex::new, ...)
solve_locals(vs, cls) ==
    [panic |-> FALSE, path |-> SearchPath_new, ca |-> LiteralSet_new, since |-> << >>,
     ci |-> ClauseIndex_new(cls), kg |-> KnowledgeGraph_new(vs), pc |-> "start",
     queue |-> << >>, stage |-> "initial", solution |-> Running, step_count |-> 0,
     first_decision |-> None, backtracks |-> 0, fill |-> FALSE]

\* the orders in which the current level's literals may enter the queue
QueueOrders(m) == LiteralSet_as_assignment_vec(LiteralSet_from_assignment_vec(m.since))

----------------------------------------------------------------------------
(* The state machine *)

M == [panic |-> FALSE, path |-> path, ca |-> current_assignments,
      since |-> assignments_since_last_step, ci |-> clause_index, kg |-> kg,
      pc |-> pc, queue |-> queue, stage |-> stage, solution |-> solution,
      step_count |-> step_count, first_decision |-> first_decision,
      backtracks |-> backtracks, fill |-> FALSE]

Commit(m) ==
    /\ path' = m.path
    /\ current_assignments' = m.ca
    /\ assignments_since_last_step' = m.since
    /\ clause_index' = m.ci
    /\ kg' = m.kg
    /\ pc' = m.pc
    /\ stage' = m.stage
    /\ solution' = m.solution
    /\ step_count' = m.step_count
    /\ first_decision' = m.first_decision
    /\ backtracks' = m.backtracks
    /\ IF m.fill THEN queue' \in QueueOrders(m) ELSE queue' = m.queue
    /\ UNCHANGED << debug, variables, original_variables, clauses, clauseVars, otherVars >>

InitialUnitPropagation ==
    /\ pc = "start"
    /\ Commit(initial_unit_propagation(clauses, M, debug))

PropagateUnits ==
    /\ pc = "propagate"
    /\ queue # << >>
    /\ Commit(propagate_units(clauses, M, debug))

InitialSweep ==
    /\ pc = "propagate"
    /\ queue = << >>
    /\ stage = "initial"
    /\ Commit(initial_sweep(clauses, M))

FirstDecision ==
    /\ pc = "first_decision"
    /\ Commit(first_decision_step(variables, M, debug))

Evaluate ==
    /\ pc = "evaluate"
    /\ Commit(loop_head(clauses, M, debug))

Decide ==
    /\ pc = "propagate"
    /\ queue = << >>
    /\ stage = "loop"
    /\ Commit(loop_tail(variables, M, debug))

\* the state of solve after its locals are constructed, for one instance
SolveStart(dbg, n, orig, cls) ==
    /\ debug = dbg
    /\ variables = RegisterOf(n)
    /\ original_variables = orig
    /\ clauses = cls
    /\ pc = "start"
    /\ path = solve_locals(RegisterOf(n), cls).path
    /\ current_assignments = solve_locals(RegisterOf(n), cls).ca
    /\ assignments_since_last_step = solve_locals(RegisterOf(n), cls).since
    /\ clause_index = solve_locals(RegisterOf(n), cls).ci
    /\ kg = solve_locals(RegisterOf(n), cls).kg
    /\ queue = << >>
    /\ stage = "initial"
    /\ solution = Running
    /\ step_count = 0
    /\ first_decision = None
    /\ backtracks = 0

Init ==
    /\ \E dbg \in BOOLEAN, n \in 0..NumVars :
         \E orig \in OriginalsOf(n), cls \in InstancesOver(n, MaxClauses) :
            SolveStart(dbg, n, orig, cls)
    /\ cl_input = << >>
    /\ cl_result = [state |-> "unused", literals |-> << >>]
    /\ OthersIdle

InitCore ==
    /\ \E dbg \in BOOLEAN, n \in 0..CoreVars :
         \E orig \in OriginalsOf(n), cls \in InstancesOver(n, CoreClauses) :
            SolveStart(dbg, n, orig, cls)
    /\ cl_input = << >>
    /\ cl_result = [state |-> "unused", literals |-> << >>]
    /\ OthersIdle

Next ==
    \/ InitialUnitPropagation
    \/ PropagateUnits
    \/ InitialSweep
    \/ FirstDecision
    \/ Evaluate
    \/ Decide

Spec == Init /\ [][Next]_vars

\* the same program on the smaller family of instances
SpecCore == InitCore /\ [][Next]_vars

\* solve is a sequential loop: it keeps running until it returns
FairSpec == Spec /\ WF_vars(Next)

----------------------------------------------------------------------------
(* Clause construction on its own *)

InitClause ==
    /\ SolveStart(TRUE, 0, << >>, << >>)
    /\ cl_input \in SeqsUpTo(LitsOf(NumVars), MaxLits)
    /\ cl_result = [state |-> "pending", literals |-> << >>]
    /\ OthersIdle

\* Clause::new_with_id(ix, lits)
Construct ==
    /\ cl_result.state = "pending"
    /\ cl_result' = IF new_with_id(cl_input).panic
                    THEN [state |-> "panicked", literals |-> << >>]
                    ELSE [state |-> "built", literals |-> new_with_id(cl_input).literals]
    /\ UNCHANGED << cl_input, solverVars, otherVars >>

NextClause == Construct

SpecClause == InitClause /\ [][NextClause]_vars

----------------------------------------------------------------------------
(* VariableRegister with its names *)

\* value.to_string() of a variable number of a DIMACS file
to_string(n) ==
    CASE n = 1 -> "1"
      [] n = 2 -> "2"
      [] n = 3 -> "3"
      [] OTHER -> "n"

VariableRegister_new ==
    [variables |-> << >>, names |-> << >>, original_variables |-> << >>, literal_count |-> 0]

\* get_by_name: the index registered under the name, if any (names[ix + 1] is the name of ix)
VariableRegister_get_by_name(reg, name) ==
    IF \E i \in 1..Len(reg.names) : reg.names[i] = name
    THEN Some((CHOOSE i \in 1..Len(reg.names) : reg.names[i] = name) - 1)
    ELSE None

VariableRegister_create_original(reg, name) ==
    [var |-> reg.literal_count,
     reg |-> [variables |-> Append(reg.variables, reg.literal_count),
              names |-> Append(reg.names, name),
              original_variables |-> Append(reg.original_variables, reg.literal_count),
              literal_count |-> reg.literal_count + 1]]

VariableRegister_ensure_original(reg, name) ==
    IF VariableRegister_get_by_name(reg, name) # None
    THEN [var |-> VariableRegister_get_by_name(reg, name)[1], reg |-> reg]
    ELSE VariableRegister_create_original(reg, name)

----------------------------------------------------------------------------
(* dimacs::parse *)

\* number of words after the header of a file
MaxWords == 4

\* str::parse::<i64> on the words of the model's files
ParseI64(w) ==
    CASE w = "0" -> [ok |-> TRUE, n |-> 0]
      [] w = "1" -> [ok |-> TRUE, n |-> 1]
      [] w = "-1" -> [ok |-> TRUE, n |-> 0 - 1]
      [] w = "2" -> [ok |-> TRUE, n |-> 2]
      [] w = "-2" -> [ok |-> TRUE, n |-> 0 - 2]
      [] OTHER -> [ok |-> FALSE, n |-> 0]

\* str::parse::<u64>: a sign is no digit
ParseU64(w) == [ok |-> ParseI64(w).ok /\ ParseI64(w).n >= 0, n |-> ParseI64(w).n]

\* line.chars().next() == Some('c'), for a line that begins with its first word
IsCommentLine(line) == line # << >> /\ line[1] \in {"c", "cnf"}

RECURSIVE FilterAndFlatten(_)
\* .filter(not a comment).flat_map(split_ascii_whitespace)
FilterAndFlatten(lines) ==
    IF lines = << >> THEN << >>
    ELSE (IF IsCommentLine(Head(lines)) THEN << >> ELSE Head(lines))
         \o FilterAndFlatten(Tail(lines))

\* DimacsHeader::parse: four words are taken, then the two counts are parsed
DimacsHeader_parse(words) ==
    IF Len(words) < 2 THEN [error |-> "MalformedHeader", words |-> << >>]
    ELSE IF words[1] # "p" \/ words[2] # "cnf"
    THEN [error |-> "MalformedHeader", words |-> SubSeq(words, 3, Len(words))]
    ELSE IF Len(words) < 4 THEN [error |-> "MalformedHeader", words |-> << >>]
    ELSE IF ~ParseU64(words[3]).ok \/ ~ParseU64(words[4]).ok
    THEN [error |-> "ParseError", words |-> SubSeq(words, 5, Len(words))]
    ELSE [error |-> "none", words |-> SubSeq(words, 5, Len(words))]

\* the locals of parse before the first word is read
parse_start(lines) ==
    [state |-> "header", words |-> FilterAndFlatten(lines), cnf |-> << >>,
     current_clause |-> << >>, vars |-> VariableRegister_new, error |-> "none"]

\* let _header = DimacsHeader::parse(&mut words)?
parse_header(d) ==
    LET h == DimacsHeader_parse(d.words)
    IN  IF h.error # "none"
        THEN [d EXCEPT !.state = "error", !.error = h.error, !.words = h.words]
        ELSE [d EXCEPT !.state = "body", !.words = h.words]

\* one turn of the for loop over the words
parse_word(d) ==
    LET r == ParseI64(Head(d.words))
        rest == Tail(d.words)
    IN  IF ~r.ok THEN [d EXCEPT !.state = "error", !.error = "ParseError", !.words = rest]
        ELSE IF r.n = 0
        THEN IF new_with_id(d.current_clause).panic
             THEN [d EXCEPT !.state = "panicked", !.words = rest]
             ELSE [d EXCEPT !.cnf = Append(@, new_with_id(d.current_clause).literals),
                            !.current_clause = << >>, !.words = rest]
        ELSE LET polarity == r.n > 0
                 value == IF polarity THEN r.n ELSE 0 - r.n
                 e == VariableRegister_ensure_original(d.vars, to_string(value))
             IN  [d EXCEPT !.vars = e.reg,
                           !.current_clause = Append(@, LiteralNew(e.var, polarity)),
                           !.words = rest]

\* return Ok(Instance::new_from_clauses(cnf, vars))
parse_return(d) == [d EXCEPT !.state = "ok"]

\* the files: an optional comment line, a header line, the other words on one line
HeaderLines ==
    { << "p", "cnf", "2", "2" >>, << "p", "cnf", "2" >>, << "p", "sat", "2", "2" >>,
      << "p", "cnf", "-1", "2" >>, << >> }

BodyWords == {"0", "1", "-1", "2", "-2", "x"}

DimacsFiles ==
    { pre \o << h >> \o mid \o << b >> :
        pre \in { << >>, << << "c", "1", "0" >> >> },
        h \in HeaderLines,
        mid \in { << >>, << << "cnf", "0" >> >> },
        b \in SeqsUpTo(BodyWords, MaxWords) }

dimacsRest == << solverVars, clauseVars, builderVars, literalVars, trailVars, indexVars,
                searchVars >>

InitDimacs ==
    /\ SolveStart(TRUE, 0, << >>, << >>)
    /\ cl_input = << >>
    /\ cl_result = [state |-> "unused", literals |-> << >>]
    /\ dm_lines \in DimacsFiles
    /\ dm = parse_start(dm_lines)
    /\ BuilderIdle /\ LiteralIdle /\ TrailIdle /\ IndexIdle /\ SearchIdle

ParseHeader ==
    /\ dm.state = "header"
    /\ dm' = parse_header(dm)
    /\ UNCHANGED << dm_lines, dimacsRest >>

ParseWord ==
    /\ dm.state = "body"
    /\ dm.words # << >>
    /\ dm' = parse_word(dm)
    /\ UNCHANGED << dm_lines, dimacsRest >>

ParseReturn ==
    /\ dm.state = "body"
    /\ dm.words = << >>
    /\ dm' = parse_return(dm)
    /\ UNCHANGED << dm_lines, dimacsRest >>

NextDimacs ==
    \/ ParseHeader
    \/ ParseWord
    \/ ParseReturn

SpecDimacs == InitDimacs /\ [][NextDimacs]_vars

----------------------------------------------------------------------------
(* ProblemBuilder *)

\* number of calls made on one builder
MaxBuilderOps == 3

\* format!("t#{}", ix)
TseitinName(ix) ==
    CASE ix = 0 -> "t#0"
      [] ix = 1 -> "t#1"
      [] ix = 2 -> "t#2"
      [] ix = 3 -> "t#3"
      [] ix = 4 -> "t#4"
      [] OTHER -> "t#n"

VariableRegister_create_tseitin(reg) ==
    [var |-> reg.literal_count,
     reg |-> [reg EXCEPT !.variables = Append(@, reg.literal_count),
                         !.names = Append(@, TseitinName(reg.literal_count)),
                         !.literal_count = @ + 1]]

\* BoolExpr::Variable(v), BoolExpr::Not(v)
BoolExpr(kind, var) == [kind |-> kind, var |-> var]

\* BoolExpr::as_literal
as_literal(expr) == LiteralNew(expr.var, expr.kind = "Variable")

ProblemBuilder_new == [state |-> "open", variables |-> VariableRegister_new, expressions |-> << >>]

\* ProblemBuilder::var
ProblemBuilder_var(b, name) ==
    [b EXCEPT !.variables = VariableRegister_create_original(b.variables, name).reg]

\* ProblemBuilder::not
ProblemBuilder_not(expr) ==
    IF expr.kind = "Not" THEN BoolExpr("Variable", expr.var) ELSE BoolExpr("Not", expr.var)

\* ProblemBuilder::require
ProblemBuilder_require(b, expr) ==
    [b EXCEPT !.expressions = Append(@, << as_literal(expr) >>)]

\* a slip in or: the second clause keeps the operand as it is
ProblemBuilder_or_slip(b, x, y) ==
    LET t == VariableRegister_create_tseitin(b.variables)
    IN  [expr |-> BoolExpr("Variable", t.var),
         b |-> [b EXCEPT !.variables = t.reg,
                         !.expressions = @ \o
                            << << LiteralNew(t.var, FALSE), as_literal(x), as_literal(y) >>,
                               << LiteralNew(t.var, TRUE), as_literal(x) >>,
                               << LiteralNew(t.var, TRUE), LiteralInvert(as_literal(y)) >> >>]]

\* ProblemBuilder::or
ProblemBuilder_or(b, x, y) ==
    LET t == VariableRegister_create_tseitin(b.variables)
    IN  [expr |-> BoolExpr("Variable", t.var),
         b |-> [b EXCEPT !.variables = t.reg,
                         !.expressions = @ \o
                            << << LiteralNew(t.var, FALSE), as_literal(x), as_literal(y) >>,
                               << LiteralNew(t.var, TRUE), LiteralInvert(as_literal(x)) >>,
                               << LiteralNew(t.var, TRUE), LiteralInvert(as_literal(y)) >> >>]]

\* ProblemBuilder::and
ProblemBuilder_and(b, x, y) ==
    LET t == VariableRegister_create_tseitin(b.variables)
    IN  [expr |-> BoolExpr("Variable", t.var),
         b |-> [b EXCEPT !.variables = t.reg,
                         !.expressions = @ \o
                            << << LiteralNew(t.var, TRUE), LiteralInvert(as_literal(x)),
                                  LiteralInvert(as_literal(y)) >>,
                               << LiteralNew(t.var, FALSE), as_literal(x) >>,
                               << LiteralNew(t.var, FALSE), as_literal(y) >> >>]]

\* ProblemBuilder::build: Instance::new makes a Clause of every expression
ProblemBuilder_build(b) ==
    IF \E i \in 1..Len(b.expressions) : new_with_id(b.expressions[i]).panic
    THEN [b EXCEPT !.state = "panicked"]
    ELSE [b EXCEPT !.state = "built",
                   !.expressions = [i \in 1..Len(b.expressions) |->
                                       new_with_id(b.expressions[i]).literals]]

\* the expressions a caller can hold: a registered variable, or its negation
BoolExprsOf(b) ==
    { BoolExpr(k, v) : k \in {"Variable", "Not"}, v \in Range(b.variables.variables) }

builderRest == << solverVars, clauseVars, dimacsVars, literalVars, trailVars, indexVars,
                searchVars >>

InitBuilder ==
    /\ SolveStart(TRUE, 0, << >>, << >>)
    /\ cl_input = << >>
    /\ cl_result = [state |-> "unused", literals |-> << >>]
    /\ DimacsIdle /\ LiteralIdle /\ TrailIdle /\ IndexIdle /\ SearchIdle
    /\ pb = ProblemBuilder_new
    /\ pb_log = << >>

BuilderOpen == pb.state = "open" /\ Len(pb_log) < MaxBuilderOps

BuilderVar ==
    /\ BuilderOpen
    /\ \E name \in {"x", "y"} :
         /\ pb' = ProblemBuilder_var(pb, name)
         /\ pb_log' = Append(pb_log, [op |-> "var", a |-> BoolExpr("Variable", 0),
                                      b |-> BoolExpr("Variable", 0),
                                      t |-> pb.variables.literal_count,
                                      at |-> Len(pb.expressions) + 1])
    /\ UNCHANGED builderRest

BuilderOr ==
    /\ BuilderOpen
    /\ \E x \in BoolExprsOf(pb), y \in BoolExprsOf(pb) :
         /\ pb' = ProblemBuilder_or(pb, x, y).b
         /\ pb_log' = Append(pb_log, [op |-> "or", a |-> x, b |-> y,
                                      t |-> ProblemBuilder_or(pb, x, y).expr.var,
                                      at |-> Len(pb.expressions) + 1])
    /\ UNCHANGED builderRest

BuilderAnd ==
    /\ BuilderOpen
    /\ \E x \in BoolExprsOf(pb), y \in BoolExprsOf(pb) :
         /\ pb' = ProblemBuilder_and(pb, x, y).b
         /\ pb_log' = Append(pb_log, [op |-> "and", a |-> x, b |-> y,
                                      t |-> ProblemBuilder_and(pb, x, y).expr.var,
                                      at |-> Len(pb.expressions) + 1])
    /\ UNCHANGED builderRest

BuilderRequire ==
    /\ BuilderOpen
    /\ \E h \in BoolExprsOf(pb) :
         /\ pb' = ProblemBuilder_require(pb, h)
         /\ pb_log' = Append(pb_log, [op |-> "require", a |-> h, b |-> h,
                                      t |-> 0, at |-> Len(pb.expressions) + 1])
    /\ UNCHANGED builderRest

BuilderBuild ==
    /\ pb.state = "open"
    /\ pb' = ProblemBuilder_build(pb)
    /\ UNCHANGED << pb_log, builderRest >>

NextBuilder ==
    \/ BuilderVar
    \/ BuilderOr
    \/ BuilderAnd
    \/ BuilderRequire
    \/ BuilderBuild

SpecBuilder == InitBuilder /\ [][NextBuilder]_vars

----------------------------------------------------------------------------
(* Literal on 32-bit words.  A word is kept as its top bit and its low 31   *)
(* bits: [hi |-> bit 31, lo |-> bits 30..0], of value hi * 2^31 + lo.       *)

\* how far around 0, 2^30, 2^31 and 2^32 the variable indexes are taken
EdgeWidth == 4

\* bit 30 of a word, the bit that << 1 moves into the top bit
Bit30 == 1073741824

\* the low 31 bits all set
Low31 == 2147483647

U32(hi, lo) == [hi |-> hi, lo |-> lo]

\* pub const MAX_LITERAL: u32 = 1 << 31
MAX_LITERAL == U32(1, 0)

\* a > b on words
U32Greater(a, b) == a.hi > b.hi \/ (a.hi = b.hi /\ a.lo > b.lo)

\* w << 1 in 32 bits: the top bit is shifted out
U32Shl1(w) == U32(w.lo \div Bit30, (w.lo % Bit30) * 2)

\* w >> 1
U32Shr1(w) == U32(0, w.hi * Bit30 + w.lo \div 2)

\* w | bit, w ^ 1, w & 1 on the lowest bit
U32OrBit(w, bit) == U32(w.hi, IF w.lo % 2 = 1 THEN w.lo ELSE w.lo + bit)

U32Xor1(w) == U32(w.hi, IF w.lo % 2 = 1 THEN w.lo - 1 ELSE w.lo + 1)

U32And1(w) == w.lo % 2

\* Literal::new: panics above MAX_LITERAL, else (var << 1) | polarity
Literal_new(var, polarity) ==
    [panic |-> U32Greater(var, MAX_LITERAL),
     word |-> U32OrBit(U32Shl1(var), IF polarity THEN 1 ELSE 0)]

\* Literal::var, Literal::polarity, Literal::invert
Literal_var(w) == U32Shr1(w)

Literal_polarity(w) == U32And1(w) # 0

Literal_invert(w) == U32Xor1(w)

\* the variable indexes tried: around 0, 2^30, 2^31 - 1, 2^31 and 2^32 - 1
LiteralVarInputs ==
    { U32(0, n) : n \in 0..EdgeWidth }
      \cup { U32(0, Bit30 - n) : n \in 0..EdgeWidth }
      \cup { U32(0, Bit30 + n) : n \in 0..EdgeWidth }
      \cup { U32(0, Low31 - n) : n \in 0..EdgeWidth }
      \cup { U32(1, n) : n \in 0..EdgeWidth }
      \cup { U32(1, Low31 - n) : n \in 0..EdgeWidth }

literalRest == << solverVars, clauseVars, dimacsVars, builderVars, trailVars, indexVars,
                searchVars >>

InitLiteral ==
    /\ SolveStart(TRUE, 0, << >>, << >>)
    /\ cl_input = << >>
    /\ cl_result = [state |-> "unused", literals |-> << >>]
    /\ DimacsIdle /\ BuilderIdle /\ TrailIdle /\ IndexIdle /\ SearchIdle
    /\ lit_var \in LiteralVarInputs
    /\ lit_polarity \in BOOLEAN
    /\ lit_made = [state |-> "input", word |-> U32(0, 0), inverted |-> U32(0, 0),
                   twice |-> U32(0, 0)]

\* Literal::new(var, polarity)
LiteralMake ==
    /\ lit_made.state = "input"
    /\ lit_made' = IF Literal_new(lit_var, lit_polarity).panic
                   THEN [lit_made EXCEPT !.state = "panicked"]
                   ELSE [lit_made EXCEPT !.state = "new",
                                         !.word = Literal_new(lit_var, lit_polarity).word]
    /\ UNCHANGED << lit_var, lit_polarity, literalRest >>

\* lit.invert()
LiteralInvertOnce ==
    /\ lit_made.state = "new"
    /\ lit_made' = [lit_made EXCEPT !.state = "inverted",
                                    !.inverted = Literal_invert(lit_made.word)]
    /\ UNCHANGED << lit_var, lit_polarity, literalRest >>

\* lit.invert().invert()
LiteralInvertTwice ==
    /\ lit_made.state = "inverted"
    /\ lit_made' = [lit_made EXCEPT !.state = "twice",
                                    !.twice = Literal_invert(lit_made.inverted)]
    /\ UNCHANGED << lit_var, lit_polarity, literalRest >>

NextLiteral ==
    \/ LiteralMake
    \/ LiteralInvertOnce
    \/ LiteralInvertTwice

SpecLiteral == InitLiteral /\ [][NextLiteral]_vars

----------------------------------------------------------------------------
(* Trail (src/src/solver/trail.rs) and the backtrack strategies            *)
(* (src/src/solver/backtrack.rs).  Level k of the trail is trail[k + 1].   *)

\* variables the literals put on the trail are made of
TrailVars == 3
\* literals the trail may hold before the additions stop
MaxTrailLits == 2

TrailEntry_new(literal) ==
    [decision |-> literal,
     inferred |-> << >>,
     all      |-> IF literal = None THEN LiteralSet_new
                  ELSE LiteralSet_add(LiteralSet_new, literal[1])]

Trail_new ==
    [trail |-> << TrailEntry_new(None) >>, cumulative_assignment |-> LiteralSet_new]

\* self.trail.len() - 1 on a usize: a debug build panics below 0, a release build
\* wraps to 2^64 - 1, written -1
current_decision_level(t, dbg) ==
    [panic |-> dbg /\ Len(t.trail) = 0, level |-> Len(t.trail) - 1]

\* a slip in require_unset: the check of the inverse literal is left out
require_unset_same(t, literal, dbg) ==
    dbg /\ LiteralSet_contains(t.cumulative_assignment, literal)

\* TRUE when require_unset panics; the release build compiles it to nothing
require_unset(t, literal, dbg) ==
    dbg /\ \/ LiteralSet_contains(t.cumulative_assignment, literal)
           \/ LiteralSet_contains(t.cumulative_assignment, LiteralInvert(literal))

Trail_add_decision(t, literal, dbg) ==
    IF require_unset(t, literal, dbg) THEN [panic |-> TRUE, t |-> t]
    ELSE [panic |-> FALSE,
          t |-> [trail |-> Append(t.trail, TrailEntry_new(Some(literal))),
                 cumulative_assignment |-> LiteralSet_add(t.cumulative_assignment, literal)]]

Trail_add_inferred(t, literal, dbg) ==
    IF require_unset(t, literal, dbg) THEN [panic |-> TRUE, t |-> t]
    ELSE LET n  == Len(t.trail)
             ca == LiteralSet_add(t.cumulative_assignment, literal)
         IN  [panic |-> FALSE,
              t |-> [trail |-> IF n = 0 THEN t.trail
                               ELSE [t.trail EXCEPT
                                       ![n].inferred = Append(@, literal),
                                       ![n].all = LiteralSet_add(@, literal)],
                     cumulative_assignment |-> ca]]

RECURSIVE DroppedAssignments(_, _)
\* the loop of execute_backtrack over the dropped entries, from entry k on
DroppedAssignments(dropped, k) ==
    IF k > Len(dropped) THEN << >>
    ELSE dropped[k].inferred
           \o (IF dropped[k].decision = None THEN << >> ELSE << dropped[k].decision[1] >>)
           \o DroppedAssignments(dropped, k + 1)

\* a slip in execute_backtrack: the first dropped entry is left out of the list
execute_backtrack_skip(t, point) ==
    IF point > Len(t.trail)
    THEN [panic |-> TRUE, trail |-> t.trail,
          result |-> [assignments |-> << >>, last_decision |-> None]]
    ELSE LET dropped == SubSeq(t.trail, point + 1, Len(t.trail))
         IN  [panic |-> FALSE,
              trail |-> SubSeq(t.trail, 1, point),
              result |-> [assignments   |-> DroppedAssignments(dropped, 2),
                          last_decision |-> IF dropped = << >> THEN None
                                            ELSE dropped[1].decision]]

\* drain(point..) panics when point is beyond the end of the vector
execute_backtrack(t, point) ==
    IF point > Len(t.trail)
    THEN [panic |-> TRUE, trail |-> t.trail,
          result |-> [assignments |-> << >>, last_decision |-> None]]
    ELSE LET dropped == SubSeq(t.trail, point + 1, Len(t.trail))
         IN  [panic |-> FALSE,
              trail |-> SubSeq(t.trail, 1, point),
              result |-> [assignments   |-> DroppedAssignments(dropped, 1),
                          last_decision |-> IF dropped = << >> THEN None
                                            ELSE dropped[1].decision]]

RECURSIVE RemoveAssignments(_, _, _)
\* the loop of Trail::backtrack over result.assignments; LiteralSet::remove panics
\* when the value it removed is not the literal's polarity
RemoveAssignments(r, lits, k) ==
    IF r.panic \/ k > Len(lits) THEN r
    ELSE RemoveAssignments(LiteralSet_remove(r.set, lits[k]), lits, k + 1)

Trail_backtrack(t, pivot) ==
    LET x  == execute_backtrack(t, pivot)
        rm == RemoveAssignments([panic |-> x.panic, set |-> t.cumulative_assignment],
                                x.result.assignments, 1)
    IN  [panic  |-> rm.panic,
         t      |-> [trail |-> x.trail, cumulative_assignment |-> rm.set],
         result |-> x.result]

\* the index of the last entry whose decision is positive, looking back no further
\* than an entry without decision
DumbBacktrackStrategy_find_backtrack_point(search_path) ==
    LET stops == { i \in 1..Len(search_path) :
                     \/ search_path[i].decision = None
                     \/ LiteralPolarity(search_path[i].decision[1]) }
    IN  IF stops = {} THEN None
        ELSE LET i == CHOOSE j \in stops : \A k \in stops : k <= j
             IN  IF search_path[i].decision = None THEN None ELSE Some(i - 1)

BackjumpStrategy_find_backtrack_point(analyzed_conflict) ==
    Some(analyzed_conflict.second_highest_decision_level)

\* the levels ConflictAnalyzer::analyse_conflict can name at a conflict on a
\* decision level: a level below the current one, 0 when the cut has no other level
BackjumpLevels(t) == 0..(Len(t.trail) - 2)

\* the number of literals the entries of the trail hold
TrailSize(t) ==
    LET RECURSIVE Count(_)
        Count(k) == IF k > Len(t.trail) THEN 0
                    ELSE Len(t.trail[k].inferred)
                         + (IF t.trail[k].decision = None THEN 0 ELSE 1)
                         + Count(k + 1)
    IN  Count(1)

trailRest == << variables, original_variables, clauses, pc, path, current_assignments,
                assignments_since_last_step, clause_index, kg, queue, stage, solution,
                step_count, first_decision, backtracks,
                clauseVars, dimacsVars, builderVars, literalVars, indexVars, searchVars >>

NoResult == [assignments |-> << >>, last_decision |-> None]

InitTrail ==
    /\ \E dbg \in BOOLEAN : SolveStart(dbg, 0, << >>, << >>)
    /\ cl_input = << >>
    /\ cl_result = [state |-> "unused", literals |-> << >>]
    /\ DimacsIdle /\ BuilderIdle /\ LiteralIdle /\ IndexIdle /\ SearchIdle
    /\ trail = [panic |-> FALSE, t |-> Trail_new]
    /\ trail_log = [op |-> "new", literal |-> 0, level |-> 0, pivot |-> 0,
                    before |-> Trail_new, result |-> NoResult, misused |-> FALSE]

\* one call of add_decision or add_inferred; misused records that some call so far
\* added a literal whose variable was assigned
TrailAdd(op, literal) ==
    LET r == IF op = "add_decision" THEN Trail_add_decision(trail.t, literal, debug)
             ELSE Trail_add_inferred(trail.t, literal, debug)
    IN  /\ ~trail.panic
        /\ TrailSize(trail.t) < MaxTrailLits
        /\ trail' = [panic |-> r.panic, t |-> r.t]
        /\ trail_log' = [op |-> op, literal |-> literal, level |-> 0, pivot |-> 0,
                         before |-> trail.t, result |-> NoResult,
                         misused |-> \/ trail_log.misused
                                     \/ LiteralSet_has(trail.t.cumulative_assignment,
                                                       LiteralVar(literal))]
        /\ UNCHANGED << debug, trailRest >>

TrailAddDecision == \E literal \in LitsOf(TrailVars) : TrailAdd("add_decision", literal)

TrailAddInferred == \E literal \in LitsOf(TrailVars) : TrailAdd("add_inferred", literal)

\* path.backtrack(strategy.find_backtrack_point(path.search_path(), ..).unwrap())
TrailBacktrackTo(op, level, point) ==
    LET r == Trail_backtrack(trail.t, point)
    IN  /\ trail' = [panic |-> r.panic, t |-> r.t]
        /\ trail_log' = [op |-> op, literal |-> 0, level |-> level, pivot |-> point,
                         before |-> trail.t, result |-> r.result,
                         misused |-> trail_log.misused]
        /\ UNCHANGED << debug, trailRest >>

\* with DumbBacktrackStrategy
TrailBacktrackDumb ==
    /\ ~trail.panic
    /\ DumbBacktrackStrategy_find_backtrack_point(trail.t.trail) # None
    /\ TrailBacktrackTo("backtrack_dumb", 0,
                        DumbBacktrackStrategy_find_backtrack_point(trail.t.trail)[1])

\* with BackjumpStrategy, after a conflict on a decision level
TrailBackjump ==
    /\ ~trail.panic
    /\ \E level \in BackjumpLevels(trail.t) :
         TrailBacktrackTo("backjump", level,
             BackjumpStrategy_find_backtrack_point(
                 [second_highest_decision_level |-> level])[1])

NextTrail ==
    \/ TrailAddDecision
    \/ TrailAddInferred
    \/ TrailBacktrackDumb
    \/ TrailBackjump

SpecTrail == InitTrail /\ [][NextTrail]_vars

----------------------------------------------------------------------------
(* ClauseStore (src/src/solver/clause_store.rs) over its ClauseList and its *)
(* ClauseIndex.  Clause ix of the code is clause ix + 1 here; offsets are   *)
(* kept as the code has them, from 0.                                       *)

\* variables of the clauses of a store
IndexVars == 2
\* input clauses of a store
IndexClauses == 2
\* learnt clauses added to a store
MaxLearnt == 1
\* literals the arena of a store may hold
MaxArena == 2

ClauseList_new(cls) ==
    LET RECURSIVE Build(_)
        Build(k) ==
            IF k = 0 THEN [literals |-> << >>, offsets |-> << >>]
            ELSE LET l == Build(k - 1)
                 IN  [literals |-> l.literals \o StableSortBy(cls[k], FALSE),
                      offsets  |-> Append(l.offsets, Len(l.literals))]
    IN  Build(Len(cls))

\* the literals ClauseList::get(ix) refers to
ClauseList_get(list, ix) ==
    LET next_offset == IF ix + 1 \in 1..Len(list.offsets) THEN list.offsets[ix + 1]
                       ELSE Len(list.literals)
    IN  SubSeq(list.literals, list.offsets[ix] + 1, next_offset)

\* a slip in contains: clauses of one literal are never compared
ClauseList_contains_long(list, clause) ==
    \E ix \in 1..Len(list.offsets) :
        Len(clause) > 1 /\ ClauseList_get(list, ix) = clause

ClauseList_contains(list, clause) ==
    \E ix \in 1..Len(list.offsets) : ClauseList_get(list, ix) = clause

ClauseList_add_clause(list, clause) ==
    IF ClauseList_contains(list, clause) THEN [added |-> FALSE, list |-> list]
    ELSE [added |-> TRUE,
          list  |-> [literals |-> list.literals \o clause,
                     offsets  |-> Append(list.offsets, Len(list.literals))]]

ClauseIndex_add_clause(ci, literals) ==
    LET ix         == Len(ci.free_var_count) + 1
        free_count == Cardinality({ k \in 1..Len(literals) :
                                      LiteralVar(literals[k]) \notin ci.resolved_vars })
        c1         == [ci EXCEPT !.free_var_count = Append(@, free_count)]
    IN  IF free_count = 0 THEN [c1 EXCEPT !.no_free_var_clauses = @ \cup {ix}]
        ELSE IF free_count = 1 THEN [c1 EXCEPT !.one_free_var_clauses = @ \cup {ix}]
        ELSE [c1 EXCEPT !.two_free_var_clause_count = @ + 1]

ClauseStore_new(cls) ==
    LET list == ClauseList_new(cls)
    IN  [clauses |-> list,
         index   |-> ClauseIndex_new([ix \in 1..Len(list.offsets) |-> ClauseList_get(list, ix)])]

ClauseStore_add_clause(s, clause_literals) ==
    LET a == ClauseList_add_clause(s.clauses, clause_literals)
    IN  IF ~a.added THEN s
        ELSE [clauses |-> a.list, index |-> ClauseIndex_add_clause(s.index, clause_literals)]

indexRest == << variables, original_variables, clauses, pc, path, current_assignments,
                assignments_since_last_step, clause_index, kg, queue, stage, solution,
                step_count, first_decision, backtracks,
                clauseVars, dimacsVars, builderVars, literalVars, trailVars, searchVars >>

\* the input clause lists of a store: at most k clauses that fit the arena, equal
\* clauses allowed, listed in non-decreasing code
StoreInputs(n, k) ==
    { cls \in SeqsUpTo(ClausesOver(n), k) :
        /\ Len(ClauseList_new(cls).literals) <= MaxArena
        /\ \A i \in 1..(Len(cls) - 1) : ClauseCode(cls[i], n) <= ClauseCode(cls[i + 1], n) }

\* what is noted of the last call on the store: the call and its argument, whether
\* add_clause returned a reference, the store before the call, and for a
\* mark_unresolved(var) that follows mark_resolved(var) the index before the two
IndexCall(op, var, literals, returned, undo) ==
    [op |-> op, var |-> var, literals |-> literals, returned |-> returned,
     before |-> [clauses |-> store.clauses, index |-> index], undo |-> undo]

InitIndex ==
    /\ \E dbg \in BOOLEAN : SolveStart(dbg, 0, << >>, << >>)
    /\ cl_input = << >>
    /\ cl_result = [state |-> "unused", literals |-> << >>]
    /\ DimacsIdle /\ BuilderIdle /\ LiteralIdle /\ TrailIdle /\ SearchIdle
    /\ \E cls \in StoreInputs(IndexVars, IndexClauses) :
         /\ store = [panic |-> FALSE, learnt |-> 0, clauses |-> ClauseStore_new(cls).clauses,
                     last |-> [op |-> "new", var |-> 0, literals |-> << >>,
                               returned |-> FALSE,
                               before |-> ClauseStore_new(cls), undo |-> None]]
         /\ index = ClauseStore_new(cls).index

\* store.mark_resolved(var), for a variable that is not resolved
IndexMarkResolved ==
    /\ ~store.panic
    /\ \E var \in (0..(IndexVars - 1)) \ index.resolved_vars :
         /\ store' = [store EXCEPT !.panic = mark_resolved(index, var, debug).panic,
                                   !.last = IndexCall("mark_resolved", var, << >>, FALSE, None)]
         /\ index' = mark_resolved(index, var, debug).ci
    /\ UNCHANGED << debug, indexRest >>

\* store.mark_unresolved(var), for a variable that is resolved
IndexMarkUnresolved ==
    /\ ~store.panic
    /\ \E var \in index.resolved_vars :
         /\ store' = [store EXCEPT !.last =
                        IndexCall("mark_unresolved", var, << >>, FALSE,
                                  IF store.last.op = "mark_resolved" /\ store.last.var = var
                                  THEN Some(store.last.before.index) ELSE None)]
         /\ index' = mark_unresolved(index, var)
    /\ UNCHANGED << debug, indexRest >>

\* store.add_clause(literals) with a learnt clause: sorted, one literal per variable
IndexAddLearnt ==
    /\ ~store.panic
    /\ store.learnt < MaxLearnt
    /\ \E literals \in ClausesOver(IndexVars) :
         LET s == ClauseStore_add_clause([clauses |-> store.clauses, index |-> index],
                                         literals)
         IN  /\ Len(s.clauses.literals) <= MaxArena
             /\ store' = [store EXCEPT
                            !.learnt = @ + 1, !.clauses = s.clauses,
                            !.last = IndexCall("add_clause", 0, literals,
                                         ClauseList_add_clause(store.clauses, literals).added,
                                         None)]
             /\ index' = s.index
    /\ UNCHANGED << debug, indexRest >>

NextIndex ==
    \/ IndexMarkResolved
    \/ IndexMarkUnresolved
    \/ IndexAddLearnt

SpecIndex == InitIndex /\ [][NextIndex]_vars

----------------------------------------------------------------------------
(* ConflictAnalyzer (src/src/solver/backtrack.rs) and the search it serves. *)
(* The analyser, the trail, the clause store and the knowledge graph are    *)
(* those of src/; the driver that calls them and the helpers the analyser   *)
(* calls on the trail (find_decision_level, iter_literals) are not in src/  *)
(* and follow the documentation (sections 4.2, 4.4 and 4.6).                *)

\* variables registered with the search
SearchVars == 4
\* input clauses of the search
SearchClauses == 3
\* literals of an input clause of the search
SearchClauseLen == 3
\* literals of the input clauses of the search, all together
SearchLits == 7
\* conflicts the search analyses before it is cut off
MaxConflicts == 2
\* variables, input clauses and literals of the smaller searches
CoreSearchVars == 3
CoreSearchClauses == 2
CoreSearchLits == 5

\* KnowledgeGraph::remove
kg_remove(g, literals) ==
    [v \in DOMAIN g |->
        IF \E k \in 1..Len(literals) : LiteralVar(literals[k]) = v
        THEN [trigger |-> None, decision |-> None, clause |-> None]
        ELSE g[v]]

\* TrailEntry::iter_literals: the decision of the level, then what was inferred
iter_literals(entry) ==
    (IF entry.decision = None THEN << >> ELSE << entry.decision[1] >>) \o entry.inferred

\* Trail::find_decision_level: the level on which the variable was placed
Trail_find_decision_level(t, var) ==
    LET at == { k \in 1..Len(t.trail) : LiteralSet_has(t.trail[k].all, var) }
    IN  IF at = {} THEN None ELSE Some((CHOOSE k \in at : TRUE) - 1)

\* Trail::last_decision: unwrap() of the last entry panics on an empty trail
Trail_last_decision(t) ==
    IF Len(t.trail) = 0 THEN [panic |-> TRUE, decision |-> None]
    ELSE [panic |-> FALSE, decision |-> Last(t.trail).decision]

\* the variables of clause ix of a store
ClauseVarsOf(s, ix) ==
    { LiteralVar(ClauseList_get(s.clauses, ix)[k]) :
        k \in 1..Len(ClauseList_get(s.clauses, ix)) }

RECURSIVE SortedLiterals(_)
\* sort_and_dedupe of the literals of a set
SortedLiterals(S) ==
    IF S = {} THEN << >>
    ELSE LET least == CHOOSE x \in S : \A y \in S : x <= y
         IN  << least >> \o SortedLiterals(S \ {least})

NoUip == [panic |-> TRUE, uip |-> 0, edge |-> << >>, steps |-> << >>]

\* a slip in find_unique_implication_point: the variable the walk resolved on
\* last is returned as the UIP
find_unique_implication_point_resolved(s, t, g, conflicting_clause) ==
    IF Len(t.trail) = 0 THEN NoUip
    ELSE
    LET level == Last(t.trail)
        lits  == iter_literals(level)
        RECURSIVE Walk(_, _, _)
        Walk(cut_edge, k, steps) ==
            IF k = 0 THEN [NoUip EXCEPT !.steps = steps]
            ELSE
            LET var  == LiteralVar(lits[k])
                cut1 == IF g[var].clause # None
                        THEN (cut_edge \cup ClauseVarsOf(s, g[var].clause[1])) \ {var}
                        ELSE cut_edge
                cur  == { v \in cut1 : LiteralSet_has(level.all, v) }
                st   == Append(steps, [var |-> var, before |-> cut_edge, after |-> cut1])
            IN  IF cur = {} THEN [NoUip EXCEPT !.steps = st]
                ELSE IF Cardinality(cur) > 1 THEN Walk(cut1, k - 1, st)
                ELSE IF \E v \in cut1 : ~LiteralSet_has(t.cumulative_assignment, v)
                THEN [NoUip EXCEPT !.steps = st]
                ELSE [panic |-> FALSE,
                      uip   |-> var,
                      edge  |-> SortedLiterals({ LiteralNew(v, t.cumulative_assignment[v]) :
                                                   v \in cut1 }),
                      steps |-> st]
    IN  Walk(ClauseVarsOf(s, conflicting_clause), Len(lits), << >>)

\* ConflictAnalyzer::find_unique_implication_point.  steps is the walk: for each
\* literal visited its variable and the cut before and after it.  panic covers
\* last().unwrap() on an empty trail, next().unwrap() on a cut with no variable
\* of the current level, get(v).unwrap() on an unassigned cut variable and
\* "could not find UIP"
find_unique_implication_point(s, t, g, conflicting_clause) ==
    IF Len(t.trail) = 0 THEN NoUip
    ELSE
    LET level == Last(t.trail)
        lits  == iter_literals(level)
        RECURSIVE Walk(_, _, _)
        Walk(cut_edge, k, steps) ==
            IF k = 0 THEN [NoUip EXCEPT !.steps = steps]
            ELSE
            LET var  == LiteralVar(lits[k])
                cut1 == IF g[var].clause # None
                        THEN (cut_edge \cup ClauseVarsOf(s, g[var].clause[1])) \ {var}
                        ELSE cut_edge
                cur  == { v \in cut1 : LiteralSet_has(level.all, v) }
                st   == Append(steps, [var |-> var, before |-> cut_edge, after |-> cut1])
            IN  IF cur = {} THEN [NoUip EXCEPT !.steps = st]
                ELSE IF Cardinality(cur) > 1 THEN Walk(cut1, k - 1, st)
                ELSE IF \E v \in cut1 : ~LiteralSet_has(t.cumulative_assignment, v)
                THEN [NoUip EXCEPT !.steps = st]
                ELSE [panic |-> FALSE,
                      uip   |-> CHOOSE v \in cur : TRUE,
                      edge  |-> SortedLiterals({ LiteralNew(v, t.cumulative_assignment[v]) :
                                                   v \in cut1 }),
                      steps |-> st]
    IN  Walk(ClauseVarsOf(s, conflicting_clause), Len(lits), << >>)

\* the level analyse_conflict gives a literal of the edge: that of the decision
\* its vertex records, of its own variable when the vertex records none, and 0
\* when the trail does not hold that variable
EdgeLevel(t, g, l) ==
    LET decision == IF g[LiteralVar(l)].decision = None THEN LiteralVar(l)
                    ELSE g[LiteralVar(l)].decision[1]
    IN  IF Trail_find_decision_level(t, decision) = None THEN 0
        ELSE Trail_find_decision_level(t, decision)[1]

\* a slip in analyse_conflict: the learnt clause is the edge, not its inversion
AnalyzedConflict_edge(f, t, g, dbg) ==
    LET levels == { EdgeLevel(t, g, f.edge[i]) : i \in 1..Len(f.edge) }
                    \ { current_decision_level(t, dbg).level }
    IN  [panic |-> f.panic,
         steps |-> f.steps,
         unique_implication_point |-> f.uip,
         learnt_clause |-> f.edge,
         second_highest_decision_level |->
            IF levels = {} THEN 0 ELSE CHOOSE l \in levels : \A m \in levels : l <= m]

\* the AnalyzedConflict analyse_conflict makes of the UIP and the edge f: the
\* lowest level of the edge other than the current one, 0 when there is none,
\* and the inversion of the edge
AnalyzedConflict(f, t, g, dbg) ==
    LET levels == { EdgeLevel(t, g, f.edge[i]) : i \in 1..Len(f.edge) }
                    \ { current_decision_level(t, dbg).level }
    IN  [panic |-> f.panic,
         steps |-> f.steps,
         unique_implication_point |-> f.uip,
         learnt_clause |-> [i \in 1..Len(f.edge) |-> LiteralInvert(f.edge[i])],
         second_highest_decision_level |->
            IF levels = {} THEN 0 ELSE CHOOSE l \in levels : \A m \in levels : l <= m]

\* ConflictAnalyzer::analyse_conflict
analyse_conflict(s, t, g, conflicting_clause, dbg) ==
    AnalyzedConflict(find_unique_implication_point(s, t, g, conflicting_clause), t, g, dbg)

\* clauses as Clause::new_with_id leaves them, of up to SearchClauseLen literals
SearchClausesOver(n) ==
    { c \in SeqsUpTo(LitsOf(n), SearchClauseLen) :
        /\ Len(c) >= 1
        /\ \A i \in 1..(Len(c) - 1) : LiteralVar(c[i]) < LiteralVar(c[i + 1]) }

RECURSIVE ClausesInOrder(_, _)
\* the clauses of a set, listed in increasing code
ClausesInOrder(S, n) ==
    IF S = {} THEN << >>
    ELSE LET first == CHOOSE c \in S : \A d \in S : ClauseCode(c, n) <= ClauseCode(d, n)
         IN  << first >> \o ClausesInOrder(S \ {first}, n)

\* the input clauses of the searches and of the smaller searches
SearchPool == ClausesInOrder(SearchClausesOver(SearchVars), SearchVars)

CoreSearchPool == ClausesInOrder(SearchClausesOver(CoreSearchVars), CoreSearchVars)

\* the clauses of a pool at the positions picked
PickedClauses(pool, ixs) == [i \in 1..Len(ixs) |-> pool[ixs[i]]]

RECURSIVE LiteralCount(_)
\* the literals of a clause list, all together
LiteralCount(s) == IF s = << >> THEN 0 ELSE Len(Head(s)) + LiteralCount(Tail(s))

searchRest == << variables, original_variables, clauses, pc, path, current_assignments,
                 assignments_since_last_step, clause_index, kg, queue, stage, solution,
                 step_count, first_decision, backtracks,
                 clauseVars, dimacsVars, builderVars, literalVars, trailVars, indexVars >>

\* the search stops: SAT, UNSAT, or PANIC when a call it made aborted
SearchReturn(c, verdict) == [c EXCEPT !.pc = "done", !.verdict = verdict]

\* the literals of the current level, the seed of a propagation pass
\* (Trail::assignments_since_last_decision: the empty set on an empty trail)
CurrentLevelLiterals(t) ==
    IF Len(t.trail) = 0 THEN << >>
    ELSE SortedLiterals({ LiteralNew(v, Last(t.trail).all[v]) : v \in DOMAIN Last(t.trail).all })

\* a literal is placed as inferred: trail, knowledge graph, clause index, queue
SearchInfer(c, inferred, trigger, clause, dbg) ==
    LET a == Trail_add_inferred(c.trail, inferred, dbg)
        d == Trail_last_decision(c.trail)
        r == mark_resolved(c.store.index, LiteralVar(inferred), dbg)
    IN  IF a.panic \/ d.panic \/ r.panic THEN [c EXCEPT !.panic = TRUE]
        ELSE [c EXCEPT !.trail = a.t,
                       !.kg = kg_add_inferred(c.kg, inferred, trigger, d.decision, clause),
                       !.store.index = r.ci,
                       !.queue = Append(@, inferred)]

RECURSIVE SearchVisit(_, _, _, _, _)
\* the propagator's visit of the candidate clauses of one popped literal: a
\* satisfied clause is skipped, a clause with one unassigned literal forces it,
\* a clause with none is the conflict
SearchVisit(c, literal, cands, k, dbg) ==
    IF k > Len(cands) \/ c.panic \/ c.conflict # 0 THEN c
    ELSE LET lits == ClauseList_get(c.store.clauses, cands[k])
             ca   == c.trail.cumulative_assignment
             free == { i \in 1..Len(lits) : ~LiteralSet_has(ca, LiteralVar(lits[i])) }
         IN  IF \E i \in 1..Len(lits) : LiteralSet_contains(ca, lits[i])
             THEN SearchVisit(c, literal, cands, k + 1, dbg)
             ELSE IF free = {} THEN [c EXCEPT !.conflict = cands[k]]
             ELSE IF Cardinality(free) = 1
             THEN SearchVisit(SearchInfer(c, lits[CHOOSE i \in free : TRUE], literal,
                                          cands[k], dbg),
                              literal, cands, k + 1, dbg)
             ELSE SearchVisit(c, literal, cands, k + 1, dbg)

\* what the driver does with a propagation pass that found a conflict: UNSAT
\* on level 0, conflict analysis above it
SearchOnConflict(c, dbg) ==
    IF c.panic \/ current_decision_level(c.trail, dbg).panic THEN SearchReturn(c, "PANIC")
    ELSE IF current_decision_level(c.trail, dbg).level = 0 THEN SearchReturn(c, "UNSAT")
    ELSE [c EXCEPT !.pc = "analyse"]

\* the level-0 units of the input: UNSAT on two opposite units, else each is a
\* level-0 inferred assignment recorded with KnowledgeGraph::add_initial
SearchStartOf(n, cls) ==
    LET s     == ClauseStore_new(cls)
        units == SortDedup([i \in 1..Len(find_unit_clauses(cls)) |->
                               find_unit_clauses(cls)[i][1]])
        RECURSIVE Place(_, _)
        Place(c, k) ==
            IF k > Len(units) THEN c
            ELSE Place([c EXCEPT
                          !.trail = Trail_add_inferred(c.trail, units[k], FALSE).t,
                          !.kg = kg_add_decision(c.kg, units[k]),
                          !.store.index = mark_resolved(c.store.index, LiteralVar(units[k]),
                                                        FALSE).ci,
                          !.queue = Append(@, units[k])],
                       k + 1)
        c0 == [pc |-> "propagate", verdict |-> "RUNNING", panic |-> FALSE, n |-> n,
               inputs |-> Len(cls),
               store |-> s, trail |-> Trail_new, kg |-> KnowledgeGraph_new(RegisterOf(n)),
               queue |-> << >>, conflict |-> 0, conflicts |-> 0,
               last |-> [op |-> "new"]]
    IN  IF UnitsConflict(units) THEN SearchReturn(c0, "UNSAT") ELSE Place(c0, 1)

\* the inputs are the lists of at most k distinct clauses of the pool with at
\* most lits literals, in the order of the pool
InitSearchOver(n, pool, k, lits) ==
    /\ \E dbg \in BOOLEAN : SolveStart(dbg, 0, << >>, << >>)
    /\ cl_input = << >>
    /\ cl_result = [state |-> "unused", literals |-> << >>]
    /\ DimacsIdle /\ BuilderIdle /\ LiteralIdle /\ TrailIdle /\ IndexIdle
    /\ \E m \in 0..k : \E ixs \in [1..m -> 1..Len(pool)] :
          /\ \A i \in 1..(m - 1) : ixs[i] < ixs[i + 1]
          /\ LiteralCount(PickedClauses(pool, ixs)) <= lits
          /\ cdcl = SearchStartOf(n, PickedClauses(pool, ixs))

InitSearch == InitSearchOver(SearchVars, SearchPool, SearchClauses, SearchLits)

InitSearchCore ==
    InitSearchOver(CoreSearchVars, CoreSearchPool, CoreSearchClauses, CoreSearchLits)

\* one round of the propagator: a literal is popped and its candidate clauses,
\* those of the one-free bucket with its variable, are visited
SearchPropagate ==
    /\ cdcl.pc = "propagate"
    /\ cdcl.queue # << >>
    /\ LET literal == cdcl.queue[1]
           c == SearchVisit([cdcl EXCEPT !.queue = SubSeq(@, 2, Len(@))], literal,
                            find_unit_prop_candidates(cdcl.store.index, literal), 1, debug)
       IN  cdcl' = IF c.panic THEN SearchReturn(c, "PANIC")
                   ELSE IF c.conflict # 0 THEN SearchOnConflict(c, debug)
                   ELSE c
    /\ UNCHANGED << debug, searchRest >>

\* the clauses the evaluation sweep can report: no free variable, a variable of
\* the current level, and falsified
SweepConflicts(c) ==
    { ix \in 1..Len(c.store.clauses.offsets) :
        /\ \E k \in 1..Len(CurrentLevelLiterals(c.trail)) :
              ix \in Range(find_evaluatable_candidates(c.store.index,
                                                       CurrentLevelLiterals(c.trail)[k]))
        /\ LiteralSet_evaluate(c.trail.cumulative_assignment,
                               ClauseList_get(c.store.clauses, ix)) = "False" }

\* the queue has drained: the evaluation sweep, then back to the driver
SearchSweep ==
    /\ cdcl.pc = "propagate"
    /\ cdcl.queue = << >>
    /\ IF SweepConflicts(cdcl) = {}
       THEN cdcl' = [cdcl EXCEPT !.pc = "decide"]
       ELSE \E ix \in SweepConflicts(cdcl) :
               cdcl' = SearchOnConflict([cdcl EXCEPT !.conflict = ix], debug)
    /\ UNCHANGED << debug, searchRest >>

\* Decide: SAT when every clause is resolved, else the first unassigned variable
\* in registration order is decided positive on a new level
SearchDecide ==
    /\ cdcl.pc = "decide"
    /\ LET free == { v \in 0..(cdcl.n - 1) :
                       ~LiteralSet_has(cdcl.trail.cumulative_assignment, v) }
           lit  == LiteralNew(CHOOSE v \in free : \A w \in free : v <= w, TRUE)
           a    == Trail_add_decision(cdcl.trail, lit, debug)
           r    == mark_resolved(cdcl.store.index, LiteralVar(lit), debug)
       IN  cdcl' = IF all_clauses_resolved(cdcl.store.index) THEN SearchReturn(cdcl, "SAT")
                   ELSE IF free = {} THEN SearchReturn(cdcl, "NO_VARIABLE")
                   ELSE IF a.panic \/ r.panic THEN SearchReturn(cdcl, "PANIC")
                   ELSE [cdcl EXCEPT !.trail = a.t,
                                     !.kg = kg_add_decision(cdcl.kg, lit),
                                     !.store.index = r.ci,
                                     !.queue = << lit >>,
                                     !.pc = "propagate"]
    /\ UNCHANGED << debug, searchRest >>

RECURSIVE SearchUnassign(_, _, _)
\* for every popped literal: clause_index.mark_unresolved
SearchUnassign(ci, lits, k) ==
    IF k > Len(lits) THEN ci
    ELSE SearchUnassign(mark_unresolved(ci, LiteralVar(lits[k])), lits, k + 1)

\* what Analyze leaves for the claims: the conflict, its analysis, the store,
\* the trail and the graph it was made on, whether the learnt clause was added
\* and the trail right after the backtrack
AnalyseLog(c, a, added, after) ==
    [op |-> "analyse", conflict |-> c.conflict, analysis |-> a,
     store |-> c.store, trail |-> c.trail, kg |-> c.kg,
     added |-> added, after |-> after]

\* the search goes on after Analyze: a learnt unit (u, ur: the trail and the
\* index with it placed as inferred) is placed, the queue is the current level
SearchResume(c, a, s1, b, ci, u, ur, dbg) ==
    LET unit == Len(a.learnt_clause) = 1
        log  == AnalyseLog(c, a, s1 # c.store, b.t)
    IN  IF unit /\ (u.panic \/ ur.panic)
        THEN SearchReturn([c EXCEPT !.last = log, !.panic = TRUE], "PANIC")
        ELSE [c EXCEPT !.pc = "propagate",
                       !.store = [clauses |-> s1.clauses,
                                  index |-> IF unit THEN ur.ci ELSE ci],
                       !.trail = IF unit THEN u.t ELSE b.t,
                       !.kg = kg_remove(c.kg, b.result.assignments),
                       !.queue = CurrentLevelLiterals(IF unit THEN u.t ELSE b.t),
                       !.conflict = 0,
                       !.conflicts = @ + 1,
                       !.last = log]

\* the backtrack b of Analyze: every popped literal is unresolved and its vertex
\* cleared
SearchBackjump(c, a, s1, b, dbg) ==
    IF b.panic
    THEN SearchReturn([c EXCEPT !.last = AnalyseLog(c, a, s1 # c.store, c.trail),
                                !.panic = TRUE], "PANIC")
    ELSE SearchResume(c, a, s1, b,
                      SearchUnassign(s1.index, b.result.assignments, 1),
                      Trail_add_inferred(b.t, a.learnt_clause[1], dbg),
                      mark_resolved(SearchUnassign(s1.index, b.result.assignments, 1),
                                    LiteralVar(a.learnt_clause[1]), dbg),
                      dbg)

\* the analysis a of Analyze: the learnt clause is appended to the store and the
\* trail backtracked to the point BackjumpStrategy names
SearchLearn(c, a, dbg) ==
    IF a.panic
    THEN SearchReturn([c EXCEPT !.last = AnalyseLog(c, a, FALSE, c.trail),
                                !.panic = TRUE], "PANIC")
    ELSE SearchBackjump(c, a, ClauseStore_add_clause(c.store, a.learnt_clause),
                        Trail_backtrack(c.trail,
                                        BackjumpStrategy_find_backtrack_point(a)[1]),
                        dbg)

\* Analyze: conflict analysis, the learnt clause appended to the store, the
\* trail backtracked to the point BackjumpStrategy names, every popped literal
\* unresolved and its vertex cleared, a learnt unit placed as inferred
SearchAnalyseOf(c, dbg) ==
    SearchLearn(c, analyse_conflict(c.store, c.trail, c.kg, c.conflict, dbg), dbg)

SearchAnalyse ==
    /\ cdcl.pc = "analyse"
    /\ cdcl.conflicts < MaxConflicts
    /\ cdcl' = SearchAnalyseOf(cdcl, debug)
    /\ UNCHANGED << debug, searchRest >>

NextSearch ==
    \/ SearchPropagate
    \/ SearchSweep
    \/ SearchDecide
    \/ SearchAnalyse

SpecSearch == InitSearch /\ [][NextSearch]_vars

SpecSearchCore == InitSearchCore /\ [][NextSearch]_vars

----------------------------------------------------------------------------
(* What the claims speak of *)

\* a clause is true under an assignment: one of its literals is held with its polarity
ClauseTrueUnder(ls, c) == \E k \in 1..Len(c) : LiteralSet_contains(ls, c[k])

\* the total assignments of the registered variables
TotalAssignments == [Range(variables) -> BOOLEAN]

\* the input has a model (by exhaustive enumeration)
Satisfiable ==
    \E a \in TotalAssignments : \A i \in 1..Len(clauses) : ClauseTrueUnder(a, clauses[i])

\* solve has returned or unwound
Done == pc = "done"

\* what solve does next, as a function of its locals
SolveStep(cls, vs, m, dbg) ==
    CASE m.pc = "start" -> initial_unit_propagation(cls, m, dbg)
      [] m.pc = "propagate" /\ m.queue # << >> -> propagate_units(cls, m, dbg)
      [] m.pc = "propagate" /\ m.queue = << >> /\ m.stage = "initial" -> initial_sweep(cls, m)
      [] m.pc = "propagate" /\ m.queue = << >> /\ m.stage = "loop" -> loop_tail(vs, m, dbg)
      [] m.pc = "first_decision" -> first_decision_step(vs, m, dbg)
      [] m.pc = "evaluate" -> loop_head(cls, m, dbg)
      [] OTHER -> m

\* the hash map hands out the current level's literals in ascending order
AscendingFill(m) ==
    IF m.fill
    THEN [m EXCEPT !.fill = FALSE,
                   !.queue = CHOOSE q \in QueueOrders(m) :
                                \A i \in 1..(Len(q) - 1) : q[i] < q[i + 1]]
    ELSE m

RECURSIVE SolveFrom(_, _, _, _)
\* the verdict of the run of solve that always gets the ascending order
SolveFrom(cls, vs, m, dbg) ==
    IF m.pc = "done" THEN m.solution.verdict
    ELSE SolveFrom(cls, vs, AscendingFill(SolveStep(cls, vs, m, dbg)), dbg)

AscendingVerdict == SolveFrom(clauses, variables, solve_locals(variables, clauses), debug)

----------------------------------------------------------------------------
(* C1 - C10 *)

\* C1: whenever solve reports SAT, the returned assignment makes every input
\* clause true: each input clause has a literal whose variable is assigned
\* with that literal's polarity.
SatAssignmentSatisfiesEveryClause ==
    solution.verdict = "SAT" =>
        \A i \in 1..Len(clauses) : ClauseTrueUnder(solution.assignment, clauses[i])

\* C2: whenever solve reports UNSAT, no total assignment of the instance's
\* variables satisfies every input clause.
UnsatOnlyWhenUnsatisfiable == solution.verdict = "UNSAT" => ~Satisfiable

\* C3: on a satisfiable input (non-empty, of non-empty non-tautological
\* clauses) solve returns SAT: once it has stopped, its report is SAT, never
\* UNSAT and never none at all.
SatisfiableInputEndsSat ==
    (clauses # << >> /\ Satisfiable /\ Done) => solution.verdict = "SAT"

\* C4: solve terminates on every input with a report: once it has stopped, it
\* has produced SAT or UNSAT.
SolveAlwaysReports == Done => solution.verdict \in {"SAT", "UNSAT"}

\* C5: the verdict of solve on a clause set is the same for every order in
\* which the current level's literals are queued and popped: whatever order a
\* run got, its verdict is the verdict of the run that gets the ascending order.
VerdictSameForEveryOrder == Done => solution.verdict = AscendingVerdict

\* C6: for the empty formula solve reports SAT with an empty assignment, and
\* no variable is decided or inferred on the way.
EmptyFormulaIsSat ==
    clauses = << >> =>
        /\ current_assignments = LiteralSet_new
        /\ path = SearchPath_new
        /\ first_decision = None
        /\ step_count = 0
        /\ solution.verdict \in {"RUNNING", "SAT"}
        /\ Done => solution = [verdict |-> "SAT", assignment |-> LiteralSet_new]

\* C6 witness: solve has returned for an empty formula over registered variables
EmptyFormulaSolved == clauses = << >> /\ variables # << >> /\ Done

\* the input holds the unit clauses x and not-x for some variable x
HasComplementaryUnits ==
    \E i, j \in 1..Len(clauses) :
        /\ Len(clauses[i]) = 1
        /\ Len(clauses[j]) = 1
        /\ clauses[j][1] = LiteralInvert(clauses[i][1])

\* C7: if the input holds the unit clauses x and not-x, solve reports UNSAT
\* out of the initial unit propagation: it goes from its start straight to the
\* report, and no decision is ever placed on the path.
ComplementaryUnitsUnsatAtLevel0 ==
    HasComplementaryUnits =>
        /\ pc \in {"start", "done"}
        /\ first_decision = None
        /\ step_count = 0
        /\ Len(path) = 1
        /\ Done => solution.verdict = "UNSAT"

\* C7 witness: solve has returned for an input with x, not-x and a further clause
ComplementaryUnitsRefuted == HasComplementaryUnits /\ Len(clauses) > 2 /\ Done

\* the input (not-1 or not-2), (not-1 or not-3), (2 or 3) over three variables
Scenario3 ==
    /\ variables = << 0, 1, 2 >>
    /\ clauses = << << LiteralNew(0, FALSE), LiteralNew(1, FALSE) >>,
                    << LiteralNew(0, FALSE), LiteralNew(2, FALSE) >>,
                    << LiteralNew(1, TRUE), LiteralNew(2, TRUE) >> >>

\* C8: on that input the first decision is variable 1 with positive polarity,
\* a conflict is reached and undone, and the run ends with SAT and an
\* assignment in which variable 1 is false.
Scenario3Run ==
    Scenario3 =>
        /\ first_decision \in {None, Some(LiteralNew(0, TRUE))}
        /\ Done => /\ solution.verdict = "SAT"
                   /\ backtracks >= 1
                   /\ LiteralSet_contains(solution.assignment, LiteralNew(0, FALSE))

\* C9 as stated: on a SAT report every original variable is reported with a
\* polarity, also one that occurs in no clause, and no auxiliary variable is
\* reported.
EveryOriginalHasPolarity ==
    solution.verdict = "SAT" =>
        LET report == Solution_fmt(variables, original_variables, solution)
        IN  /\ { report[i].var : i \in 1..Len(report) } = Range(original_variables)
            /\ \A i \in 1..Len(report) : report[i].val \in {"true", "false"}

\* C9 as amended: on a SAT report the reported variables are the original
\* ones, one entry each in registration order and none for an auxiliary
\* variable; an entry carries the polarity the returned assignment holds for
\* its variable, and "undef" when the assignment holds none.
ReportListsOriginals ==
    solution.verdict = "SAT" =>
        LET report == Solution_fmt(variables, original_variables, solution)
        IN  /\ [i \in 1..Len(report) |-> report[i].var] = original_variables
            /\ \A i \in 1..Len(report) :
                 /\ report[i].val = "true" <=>
                        LiteralSet_contains(solution.assignment, LiteralNew(report[i].var, TRUE))
                 /\ report[i].val = "false" <=>
                        LiteralSet_contains(solution.assignment, LiteralNew(report[i].var, FALSE))
                 /\ report[i].val = "undef" <=>
                        ~LiteralSet_has(solution.assignment, report[i].var)

\* C9 witness: a SAT report over an instance with an auxiliary variable that
\* was assigned, and with an original variable left without a polarity
ReportWithUndef ==
    /\ solution.verdict = "SAT"
    /\ Len(original_variables) < Len(variables)
    /\ LiteralSet_has(solution.assignment, Last(variables))
    /\ \E i \in 1..Len(original_variables) :
         ~LiteralSet_has(solution.assignment, original_variables[i])

\* the literal list holds a literal and its complement
HasComplement(lits) ==
    \E i, j \in 1..Len(lits) : lits[j] = LiteralInvert(lits[i])

ParseRejectsEmptyClause ==
    dm.state = "ok" => \A i \in 1..Len(dm.cnf) : Len(dm.cnf[i]) > 0

\* the value of a builder expression under a total assignment
ExprValue(asg, expr) == LiteralSet_contains(asg, as_literal(expr))

\* the calls of one kind in the history of the builder
CallsOf(op) == { i \in 1..Len(pb_log) : pb_log[i].op = op }

\* the three clauses a gate call appended hold exactly when t is the gate of a and b
GateDefinesOutput(g) ==
    \A asg \in [Range(pb.variables.variables) -> BOOLEAN] :
        (\A k \in 0..2 : ClauseTrueUnder(asg, pb.expressions[g.at + k]))
            <=> (asg[g.t] <=> IF g.op = "or"
                              THEN ExprValue(asg, g.a) \/ ExprValue(asg, g.b)
                              ELSE ExprValue(asg, g.a) /\ ExprValue(asg, g.b))

PackingLossless ==
    /\ lit_made.state # "input" => (lit_made.state = "panicked" <=> lit_var.hi = 1)
    /\ lit_made.state \in {"new", "inverted", "twice"} =>
         /\ Literal_var(lit_made.word) = lit_var
         /\ Literal_polarity(lit_made.word) = lit_polarity
    /\ lit_made.state \in {"inverted", "twice"} =>
         /\ Literal_var(lit_made.inverted) = lit_var
         /\ Literal_polarity(lit_made.inverted) = ~lit_polarity
    /\ lit_made.state = "twice" => lit_made.twice = lit_made.word

----------------------------------------------------------------------------
(* The trail *)

\* the literals placed at the entry, in the order they were added: the decision
\* first when decisionFirst, the inferred literals first otherwise
EntryLiterals(entry, decisionFirst) ==
    LET d == IF entry.decision = None THEN << >> ELSE << entry.decision[1] >>
    IN  IF decisionFirst THEN d \o entry.inferred ELSE entry.inferred \o d

\* the literals on the levels lo..hi of a trail
LiteralsOnLevels(t, lo, hi) ==
    UNION { Range(EntryLiterals(t.trail[k + 1], TRUE)) :
              k \in { j \in lo..hi : j + 1 \in 1..Len(t.trail) } }

AssignedLiterals(t) ==
    { LiteralNew(v, t.cumulative_assignment[v]) : v \in DOMAIN t.cumulative_assignment }

\* no call so far broke the contract of add_decision and add_inferred, and the last
\* call returned
TrailUsedAsAgreed == ~trail.panic /\ ~trail_log.misused

TrailBacktracked == trail_log.op \in {"backtrack_dumb", "backjump"}

\* C14: after any sequence of add_decision, add_inferred and backtrack, the trail
\* holds as many literals as the cumulative assignment, and the literals assigned
\* are the literals on the levels of the trail
TrailAgreesWithAssignment ==
    TrailUsedAsAgreed =>
        /\ TrailSize(trail.t) = LiteralSet_size(trail.t.cumulative_assignment)
        /\ AssignedLiterals(trail.t) = LiteralsOnLevels(trail.t, 0, Len(trail.t.trail) - 1)

\* C15: the current decision level is the number of levels minus one and the number
\* of decisions on the trail; it is 0 on a new trail, add_decision raises it by one,
\* add_inferred keeps it, and both add one literal to the assignment
DecisionLevelCountsDecisions ==
    TrailUsedAsAgreed =>
        LET now    == current_decision_level(trail.t, debug)
            before == current_decision_level(trail_log.before, debug)
            grown  == LiteralSet_size(trail.t.cumulative_assignment)
                        = LiteralSet_size(trail_log.before.cumulative_assignment) + 1
        IN  /\ ~now.panic
            /\ now.level = Len(trail.t.trail) - 1
            /\ now.level = Cardinality({ k \in 1..Len(trail.t.trail) :
                                           trail.t.trail[k].decision # None })
            /\ trail_log.op = "new" => now.level = 0
            /\ trail_log.op = "add_decision" => now.level = before.level + 1 /\ grown
            /\ trail_log.op = "add_inferred" => now.level = before.level /\ grown

\* the level a backtrack goes to: the backjump level of the analysed conflict, or
\* the level below the entry DumbBacktrackStrategy points at
BacktrackLevel ==
    IF trail_log.op = "backjump" THEN trail_log.level ELSE trail_log.pivot - 1

\* C16: a backtrack to level L leaves the trail at level L, with every literal of
\* the levels up to L assigned and no literal of a level above L assigned
BacktrackDropsLevelsAbove ==
    (TrailBacktracked /\ TrailUsedAsAgreed) =>
        /\ current_decision_level(trail.t, debug).level = BacktrackLevel
        /\ LiteralsOnLevels(trail_log.before, 0, BacktrackLevel)
             \subseteq AssignedLiterals(trail.t)
        /\ LiteralsOnLevels(trail_log.before, BacktrackLevel + 1,
                            Len(trail_log.before.trail) - 1)
             \cap AssignedLiterals(trail.t) = {}

RECURSIVE LevelsInOrder(_, _, _)
\* the literals of the entries k.. of a list of trail entries, entry after entry
LevelsInOrder(entries, k, decisionFirst) ==
    IF k > Len(entries) THEN << >>
    ELSE EntryLiterals(entries[k], decisionFirst) \o LevelsInOrder(entries, k + 1, decisionFirst)

\* the entries of the trail before the backtrack that are gone after it
DroppedLevels ==
    SubSeq(trail_log.before.trail, Len(trail.t.trail) + 1, Len(trail_log.before.trail))

\* C17: the list a backtrack returns holds the literals of the dropped levels in
\* the order they were added, the decision of a level before its inferred literals
RemovedInOrderAdded ==
    (TrailBacktracked /\ ~trail.panic) =>
        trail_log.result.assignments = LevelsInOrder(DroppedLevels, 1, TRUE)

\* C17 as the code has it: the dropped levels in trail order, and of each level the
\* inferred literals in the order they were inferred, then the decision
RemovedInferredBeforeDecision ==
    (TrailBacktracked /\ ~trail.panic) =>
        /\ trail.t.trail = SubSeq(trail_log.before.trail, 1, Len(trail.t.trail))
        /\ trail_log.result.assignments = LevelsInOrder(DroppedLevels, 1, FALSE)

\* a backtrack returned a level that held a decision and a literal inferred from it
RemovedDecisionAndInferred ==
    /\ TrailBacktracked /\ ~trail.panic
    /\ Len(DroppedLevels) >= 1
    /\ DroppedLevels[Len(DroppedLevels)].decision # None
    /\ DroppedLevels[Len(DroppedLevels)].inferred # << >>
    /\ trail_log.result.assignments[1] = DroppedLevels[Len(DroppedLevels)].inferred[1]
    /\ Last(trail_log.result.assignments) = DroppedLevels[Len(DroppedLevels)].decision[1]

\* C18: in a debug build, add_decision or add_inferred of a literal whose variable
\* is assigned, with either polarity, panics and leaves the trail and the
\* cumulative assignment as they were
DoubleAssignAborts ==
    ( /\ debug
      /\ trail_log.op \in {"add_decision", "add_inferred"}
      /\ LiteralSet_has(trail_log.before.cumulative_assignment, LiteralVar(trail_log.literal)) )
    => (trail.panic /\ trail.t = trail_log.before)

\* a debug build refused a literal whose opposite was assigned
RefusedOppositeLiteral ==
    /\ debug
    /\ trail_log.op = "add_inferred"
    /\ LiteralSet_contains(trail_log.before.cumulative_assignment,
                           LiteralInvert(trail_log.literal))
    /\ trail_log.before.trail[1].inferred # << >>
    /\ trail.panic
    /\ trail.t = trail_log.before

\* C19: the trail is never empty: the level-0 entry and its literals stay through
\* every backtrack, and the current decision level is a number from 0 on
TrailNeverEmpty ==
    ~trail.panic =>
        /\ Len(trail.t.trail) >= 1
        /\ trail.t.trail[1].decision = None
        /\ ~current_decision_level(trail.t, debug).panic
        /\ current_decision_level(trail.t, debug).level >= 0
        /\ TrailBacktracked => trail.t.trail[1] = trail_log.before.trail[1]

----------------------------------------------------------------------------
(* The clause index *)

\* the literals of clause ix of the store whose variable is not marked resolved
FreeLiterals(ix) ==
    { k \in 1..Len(ClauseList_get(store.clauses, ix)) :
        LiteralVar(ClauseList_get(store.clauses, ix)[k]) \notin index.resolved_vars }

\* C20: after any sequence of mark_resolved, mark_unresolved and add_learnt, the
\* free count stored for every clause of the store, input or learnt, is the number
\* of its literals whose variable is not marked resolved
FreeCountIsUnresolvedLiterals ==
    ~store.panic =>
        /\ Len(index.free_var_count) = Len(store.clauses.offsets)
        /\ \A ix \in 1..Len(store.clauses.offsets) :
             index.free_var_count[ix] = Cardinality(FreeLiterals(ix))

\* the variables of clause ix of the store
ClauseVars(ix) ==
    { LiteralVar(ClauseList_get(store.clauses, ix)[k]) :
        k \in 1..Len(ClauseList_get(store.clauses, ix)) }

StoredClauses == 1..Len(store.clauses.offsets)

\* C21: every clause of the store, learnt ones included, is in the occurrence list
\* of each of its variables
LearntClauseIsInOccurrenceLists ==
    ~store.panic =>
        \A ix \in StoredClauses : \A v \in ClauseVars(ix) :
            /\ v \in DOMAIN index.by_var
            /\ ix \in Range(index.by_var[v])

\* the clauses of a clause list that have the literals as their set of literals
ClausesEqualTo(list, literals) ==
    { ix \in 1..Len(list.offsets) : Range(ClauseList_get(list, ix)) = Range(literals) }

EqualInputsStoredOnce ==
    store.last.op = "new" =>
        \A ix \in StoredClauses : ClausesEqualTo(store.clauses, ClauseList_get(store.clauses, ix)) = {ix}

\* C24: all_clauses_resolved is true exactly when every clause of the store has all
\* its variables marked resolved
AllResolvedIffNoFreeLiteral ==
    ~store.panic =>
        (all_clauses_resolved(index) <=> \A ix \in StoredClauses : FreeLiterals(ix) = {})

\* C25: the unit-propagation candidates of a literal are the clauses with its
\* variable and one unresolved variable, the evaluatable candidates the clauses
\* with its variable and no unresolved variable, and no clause is both
CandidatesAreExact ==
    ~store.panic =>
        \A literal \in LitsOf(IndexVars) :
            LET with(n) == { ix \in StoredClauses :
                               /\ LiteralVar(literal) \in ClauseVars(ix)
                               /\ Cardinality(FreeLiterals(ix)) = n }
            IN  /\ Range(find_unit_prop_candidates(index, literal)) = with(1)
                /\ Range(find_evaluatable_candidates(index, literal)) = with(0)
                /\ Range(find_unit_prop_candidates(index, literal))
                     \cap Range(find_evaluatable_candidates(index, literal)) = {}

RoundStarts == pc = "propagate" /\ queue # << >>

\* the for loop of the round about to run: its outcome, the knowledge graph it
\* leaves and the literals it inferred, before sort and dedup
RoundVisit ==
    VisitCandidates(clauses, M, Last(queue),
                    find_unit_prop_candidates(clause_index, Last(queue)), 1, << >>)

\* the literals the round hands to add_inferred
RoundInferred == SortDedup(RoundVisit.inferred)

\* the clause is unit for the literal: it has the literal, the literal's
\* variable has no value, and every other literal is false
UnitFor(ca, lits, literal) ==
    /\ literal \in Range(lits)
    /\ ~LiteralSet_has(ca, LiteralVar(literal))
    /\ \A k \in 1..Len(lits) :
          lits[k] # literal =>
              /\ LiteralSet_has(ca, LiteralVar(lits[k]))
              /\ ca[LiteralVar(lits[k])] # LiteralPolarity(lits[k])

\* C27: a literal added as inferred above level 0 has in the knowledge graph an
\* antecedent clause that is unit for it when it is inferred
InferredHasUnitAntecedent ==
    (RoundStarts /\ Len(path) > 1 /\ RoundVisit.kind = "Ok") =>
        \A i \in 1..Len(RoundInferred) :
            LET vertex == RoundVisit.m.kg[LiteralVar(RoundInferred[i])]
            IN  /\ vertex.clause # None
                /\ UnitFor(current_assignments, clauses[vertex.clause[1]], RoundInferred[i])

\* the candidate clause on which the round about to run reports its conflict
ConflictingClause ==
    LET cands == find_unit_prop_candidates(clause_index, Last(queue))
        hit   == { k \in 1..Len(cands) :
                     propagate_unit(current_assignments, clauses[cands[k]]).kind = "Conflicted" }
    IN  clauses[cands[CHOOSE k \in hit : \A j \in hit : k <= j]]

\* C28: the clause of a conflict reported by a round of propagate_units has all
\* its literals false
ConflictNamesFalsifiedClause ==
    (RoundStarts /\ RoundVisit.kind = "Conflict") =>
        LiteralSet_evaluate(current_assignments, ConflictingClause) = "False"

\* propagation has returned without a conflict: the initial propagation after
\* its sweep, or do_unit_propagation of the loop
PropagationReturned ==
    \/ pc = "first_decision"
    \/ pc = "propagate" /\ queue = << >> /\ stage = "loop"

\* C29: when propagation has returned without a conflict no clause is
\* falsified and no clause is unit
PropagationLeavesNoUnitNoConflict ==
    PropagationReturned =>
        \A c \in 1..Len(clauses) :
            /\ LiteralSet_evaluate(current_assignments, clauses[c]) # "False"
            /\ \A k \in 1..Len(clauses[c]) :
                  ~UnitFor(current_assignments, clauses[c], clauses[c][k])

\* C30: the literals a round adds as inferred have no value yet and no two of
\* them are of one variable
InferredOncePerVariable ==
    (RoundStarts /\ RoundVisit.kind = "Ok") =>
        /\ \A i \in 1..Len(RoundInferred) :
              ~LiteralSet_has(current_assignments, LiteralVar(RoundInferred[i]))
        /\ \A i \in 1..Len(RoundInferred) : \A j \in 1..Len(RoundInferred) :
              i # j => LiteralVar(RoundInferred[i]) # LiteralVar(RoundInferred[j])

\* the vertex KnowledgeGraph::new and KnowledgeGraph::remove leave
ResetVertex == [trigger |-> None, decision |-> None, clause |-> None]

\* C31: the vertex of a literal recorded as initial has no antecedent clause and
\* no decision
InitialVertexHasNoDecision ==
    \A k \in 1..Len(path[1].chosen) :
        /\ kg[LiteralVar(path[1].chosen[k])].clause = None
        /\ kg[LiteralVar(path[1].chosen[k])].decision = None

\* C32: the variables marked resolved in the clause index are those of the
\* cumulative assignment, and a variable with no value has a reset vertex
AssignmentRecordsAgree ==
    pc # "done" =>
        /\ clause_index.resolved_vars = DOMAIN current_assignments
        /\ \A v \in Range(variables) :
              ~LiteralSet_has(current_assignments, v) => kg[v] = ResetVertex

\* solve is about to meet a conflict inside its loop: in do_clause_evaluation
\* or in the round of do_unit_propagation about to run
LoopConflict ==
    \/ pc = "evaluate" /\ evaluate(clauses, M)
    \/ RoundStarts /\ stage = "loop" /\ RoundVisit.kind = "Conflict"

\* the levels of the path whose decision is positive
PositiveLevels(p) == { i \in 2..Len(p) : LiteralPolarity(p[i].chosen[1]) }

\* the path after a chronological backtrack: the levels below the most recent
\* positive decision, then that decision inverted, at the same depth
PivotedPath(p) ==
    LET ix == CHOOSE i \in PositiveLevels(p) : \A j \in PositiveLevels(p) : j <= i
    IN  Append(SubSeq(p, 1, ix - 1),
               [chosen |-> << LiteralInvert(p[ix].chosen[1]) >>, inferred |-> << >>])

Analysed == cdcl.last.op = "analyse" /\ ~cdcl.last.analysis.panic

\* the level of the trail on which a variable was placed; a variable that is
\* assigned and on no level counts as of level 0, as analyse_conflict has it,
\* and one that is not assigned as of level -1
LevelOfVar(t, var) ==
    LET at == { k \in 1..Len(t.trail) :
                  \E i \in 1..Len(iter_literals(t.trail[k])) :
                      LiteralVar(iter_literals(t.trail[k])[i]) = var }
    IN  IF at # {} THEN (CHOOSE k \in at : TRUE) - 1
        ELSE IF LiteralSet_has(t.cumulative_assignment, var) THEN 0 ELSE -1

\* the decision level of the analysed conflict
ConflictLevel == Len(cdcl.last.trail.trail) - 1

\* the levels of the variables of the learnt clause
LearntLevels ==
    [i \in 1..Len(cdcl.last.analysis.learnt_clause) |->
        LevelOfVar(cdcl.last.trail, LiteralVar(cdcl.last.analysis.learnt_clause[i]))]

BackjumpLevelIsSecondHighest ==
    Analysed =>
        LET lower == { LearntLevels[i] : i \in DOMAIN LearntLevels } \cap 0..(ConflictLevel - 1)
        IN  /\ cdcl.last.analysis.second_highest_decision_level
                 = IF lower = {} THEN 0 ELSE CHOOSE l \in lower : \A m \in lower : m <= l
            /\ cdcl.last.analysis.second_highest_decision_level < ConflictLevel

\* the literal of the learnt clause on the UIP
UipLiteral ==
    cdcl.last.analysis.learnt_clause[
        CHOOSE i \in 1..Len(cdcl.last.analysis.learnt_clause) :
            LiteralVar(cdcl.last.analysis.learnt_clause[i])
              = cdcl.last.analysis.unique_implication_point]

\* C35: after the backtrack to the backjump level the learnt clause is unit:
\* its UIP literal unassigned, every other literal false
LearntUnitAfterBackjump ==
    (Analysed /\ cdcl.verdict # "PANIC") =>
        UnitFor(cdcl.last.after.cumulative_assignment, cdcl.last.analysis.learnt_clause,
                UipLiteral)

\* the total assignments of the registered variables
SearchAssignments == [0..(cdcl.n - 1) -> BOOLEAN]

CurrentLevelOf(cut) ==
    { v \in cut : LevelOfVar(cdcl.last.trail, v) = ConflictLevel }

\* C37: the walk resolves only on variables of the cut, and ends as soon as
\* the cut holds one variable of the conflict's level: a step on a variable
\* that is not in the cut, or on a cut that holds one variable of the
\* conflict's level already, leaves the cut as it was
WalkResolvesOnlyCutVariables ==
    Analysed =>
        \A k \in 1..Len(cdcl.last.analysis.steps) :
              (\/ cdcl.last.analysis.steps[k].var \notin cdcl.last.analysis.steps[k].before
               \/ Cardinality(CurrentLevelOf(cdcl.last.analysis.steps[k].before)) = 1)
              => cdcl.last.analysis.steps[k].after = cdcl.last.analysis.steps[k].before

LearntClauseIsNew ==
    (Analysed /\ cdcl.verdict # "PANIC") =>
        /\ cdcl.last.added
        /\ Len(cdcl.store.clauses.offsets) = Len(cdcl.last.store.clauses.offsets) + 1

============================================================================
